---- MODULE Spec2Model ----
(***************************************************************************)
(* Model of the aprover core: normalizer (normalizer.ts) and prover kernel *)
(* (prover.ts) of the Meta-Theory of Links checker.                        *)
(*                                                                         *)
(* AST nodes are records carrying the `type` tag and the fields of the     *)
(* interfaces of ast.ts; the optional source location `loc` is left out,   *)
(* no function modelled here reads it.                                     *)
(*                                                                         *)
(* A JavaScript string is a sequence of characters; a character is a       *)
(* one-element TLA+ string.  The three non-ASCII characters of the         *)
(* notation are named: "inf" is U+221E, "male" is U+2642, "female" is      *)
(* U+2640.  An identifier name is such a sequence too (<<"a","a">> is aa). *)
(***************************************************************************)
EXTENDS Integers, Sequences, FiniteSets, TLC

(***************************************************************************)
(* Bounds of the model                                                     *)
(***************************************************************************)
\* statements verified against one ProverState in one session
MaxStmts == 3
\* nesting depth of the operand t in the self-closure schemas
MaxNest == 2
\* number of links in a left-nested chain of infinities
MaxChain == 4

(***************************************************************************)
(* Strings                                                                 *)
(***************************************************************************)
\* UTF-16 code unit of a character (order used by Array.prototype.sort)
CodeUnit(c) ==
  CASE c = "!" -> 33  [] c = "'" -> 39  [] c = "(" -> 40  [] c = ")" -> 41
    [] c = "," -> 44  [] c = "-" -> 45  [] c = "0" -> 48  [] c = "1" -> 49
    [] c = "2" -> 50  [] c = "3" -> 51  [] c = "4" -> 52  [] c = "5" -> 53
    [] c = "6" -> 54  [] c = "7" -> 55  [] c = "8" -> 56  [] c = "9" -> 57
    [] c = ":" -> 58  [] c = "=" -> 61  [] c = ">" -> 62  [] c = "A" -> 65
    [] c = "[" -> 91  [] c = "]" -> 93  [] c = "^" -> 94  [] c = "_" -> 95
    [] c = "a" -> 97  [] c = "b" -> 98  [] c = "c" -> 99  [] c = "d" -> 100
    [] c = "f" -> 102 [] c = "i" -> 105 [] c = "m" -> 109 [] c = "n" -> 110
    [] c = "r" -> 114 [] c = "v" -> 118 [] c = "x" -> 120 [] c = "y" -> 121
    [] c = "z" -> 122 [] c = "{" -> 123 [] c = "}" -> 125
    [] c = "female" -> 9792 [] c = "inf" -> 8734 [] c = "male" -> 9794

\* the characters matched by the class [a-z]
LowerLatin == {"a", "b", "c", "d", "f", "i", "m", "n", "r", "v", "x", "y", "z"}

RECURSIVE StrLess(_, _)
\* s < t for two strings, compared code unit by code unit
StrLess(s, t) ==
  IF t = <<>> THEN FALSE
  ELSE IF s = <<>> THEN TRUE
  ELSE IF CodeUnit(Head(s)) # CodeUnit(Head(t))
       THEN CodeUnit(Head(s)) < CodeUnit(Head(t))
  ELSE StrLess(Tail(s), Tail(t))

RECURSIVE InsertSorted(_, _)
InsertSorted(s, sorted) ==
  IF sorted = <<>> THEN <<s>>
  ELSE IF StrLess(s, Head(sorted)) THEN <<s>> \o sorted
  ELSE <<Head(sorted)>> \o InsertSorted(s, Tail(sorted))

RECURSIVE SortStrings(_)
\* [...strings].sort()
SortStrings(strs) ==
  IF strs = <<>> THEN <<>>
  ELSE InsertSorted(Head(strs), SortStrings(Tail(strs)))

RECURSIVE JoinStrings(_, _)
\* strs.join(sep)
JoinStrings(strs, sep) ==
  IF strs = <<>> THEN <<>>
  ELSE IF Len(strs) = 1 THEN Head(strs)
  ELSE Head(strs) \o sep \o JoinStrings(Tail(strs), sep)

RECURSIVE NumberToString(_)
\* String(n) / `${n}` for a non-negative integer
NumberToString(n) ==
  LET digit == <<"0", "1", "2", "3", "4", "5", "6", "7", "8", "9">>
  IN IF n < 10 THEN <<digit[n + 1]>>
     ELSE NumberToString(n \div 10) \o <<digit[(n % 10) + 1]>>

(***************************************************************************)
(* AST (ast.ts)                                                            *)
(***************************************************************************)
Link(l, r)       == [type |-> "Link", left |-> l, right |-> r]
NotLink(l, r)    == [type |-> "NotLink", left |-> l, right |-> r]
Definition(n, f) == [type |-> "Definition", name |-> n, form |-> f]
Equality(l, r)   == [type |-> "Equality", left |-> l, right |-> r]
Inequality(l, r) == [type |-> "Inequality", left |-> l, right |-> r]
Male(x)          == [type |-> "Male", operand |-> x]
Female(x)        == [type |-> "Female", operand |-> x]
Not(x)           == [type |-> "Not", operand |-> x]
Power(b, n)      == [type |-> "Power", base |-> b, exponent |-> n]
SetExpr(els)     == [type |-> "Set", elements |-> els]
Infinity         == [type |-> "Infinity"]
Num(v)           == [type |-> "Num", value |-> v]
Identifier(nm)   == [type |-> "Identifier", name |-> nm]
CharLit(c)       == [type |-> "CharLit", char |-> c]
Bracket(s)       == [type |-> "Bracket", side |-> s]

isLinkExpr(node)     == node.type = "Link"
isNotLinkExpr(node)  == node.type = "NotLink"
isDefExpr(node)      == node.type = "Definition"
isEqExpr(node)       == node.type = "Equality"
isNeqExpr(node)      == node.type = "Inequality"
isMaleExpr(node)     == node.type = "Male"
isFemaleExpr(node)   == node.type = "Female"
isNotExpr(node)      == node.type = "Not"
isPowerExpr(node)    == node.type = "Power"
isSetExpr(node)      == node.type = "Set"
isInfinityExpr(node) == node.type = "Infinity"
isNumExpr(node)      == node.type = "Num"
isIdentExpr(node)    == node.type = "Identifier"
isCharLitExpr(node)  == node.type = "CharLit"
isBracketExpr(node)  == node.type = "Bracket"

(***************************************************************************)
(* Normalizer (normalizer.ts)                                              *)
(***************************************************************************)
\* a thrown NormalizationError; `message` tells the two throw sites apart
NormalizationError(msg) == [type |-> "NormalizationError", message |-> msg]
IsNormalizationError(v) == v.type = "NormalizationError"

defaultOptions ==
  [desugarNotLink |-> TRUE, expandPower |-> TRUE, canonicalize |-> TRUE,
   checkGuardedRecursion |-> TRUE]

\* JSON.parse(JSON.stringify(node)): a deep copy, equal as a value
cloneNode(node) == node

makeLink(left, right) == Link(left, right)
makeNot(operand)      == Not(operand)
makeMale(operand)     == Male(operand)
makeFemale(operand)   == Female(operand)

RECURSIVE expandPowerLoop(_, _, _, _)
\* for (let i = 3; i <= exponent; i++) result = makeLink(result, clone(base))
expandPowerLoop(result, base, i, exponent) ==
  IF i <= exponent
  THEN expandPowerLoop(makeLink(result, cloneNode(base)), base, i + 1, exponent)
  ELSE result

\* expandPower unfolding one link only and leaving a power in it
expandPowerOneLevel(base, exponent) ==
  IF exponent < 1 THEN NormalizationError("Power exponent must be >= 1")
  ELSE IF exponent = 1 THEN cloneNode(base)
  ELSE makeLink(Power(cloneNode(base), exponent - 1), cloneNode(base))

\* expandPower with the loop started at i = 2, one link too many
expandPowerFromTwo(base, exponent) ==
  IF exponent < 1 THEN NormalizationError("Power exponent must be >= 1")
  ELSE IF exponent = 1 THEN cloneNode(base)
  ELSE expandPowerLoop(makeLink(cloneNode(base), cloneNode(base)), base, 2, exponent)

expandPower(base, exponent) ==
  IF exponent < 1 THEN NormalizationError("Power exponent must be >= 1")
  ELSE IF exponent = 1 THEN cloneNode(base)
  ELSE expandPowerLoop(makeLink(cloneNode(base), cloneNode(base)), base, 3, exponent)

RECURSIVE containsIdent(_, _, _)
containsIdent(node, name, guarded) ==
  IF isIdentExpr(node) THEN node.name = name /\ ~guarded
  ELSE IF isLinkExpr(node)
    THEN containsIdent(node.left, name, TRUE) \/ containsIdent(node.right, name, TRUE)
  ELSE IF isNotLinkExpr(node)
    THEN containsIdent(node.left, name, guarded) \/ containsIdent(node.right, name, guarded)
  ELSE IF isMaleExpr(node) \/ isFemaleExpr(node) \/ isNotExpr(node)
    THEN containsIdent(node.operand, name, guarded)
  ELSE IF isPowerExpr(node) THEN containsIdent(node.base, name, guarded)
  ELSE IF isSetExpr(node)
    THEN \E i \in 1..Len(node.elements) : containsIdent(node.elements[i], name, guarded)
  ELSE IF isDefExpr(node)
    THEN containsIdent(node.name, name, guarded) \/ containsIdent(node.form, name, guarded)
  ELSE IF isEqExpr(node) \/ isNeqExpr(node)
    THEN containsIdent(node.left, name, guarded) \/ containsIdent(node.right, name, guarded)
  ELSE FALSE

\* checkGuardedRecursion entering the form as if under a link
checkGuardedRecursionGuarded(def) ==
  IF ~isIdentExpr(def.name) THEN FALSE
  ELSE containsIdent(def.form, def.name.name, TRUE)

\* TRUE when checkGuardedRecursion(def) throws
checkGuardedRecursion(def) ==
  IF ~isIdentExpr(def.name) THEN FALSE
  ELSE containsIdent(def.form, def.name.name, FALSE)

\* canonicalize with the rule of the double negation alone
canonicalizeDoubleOnly(node) ==
  IF ~isNotExpr(node) THEN node
  ELSE IF isNotExpr(node.operand) THEN node.operand.operand
  ELSE node

\* canonicalize with the results of the male and female rules exchanged
canonicalizeExchanged(node) ==
  IF ~isNotExpr(node) THEN node
  ELSE IF isNotExpr(node.operand) THEN node.operand.operand
  ELSE IF isMaleExpr(node.operand) THEN makeMale(node.operand.operand)
  ELSE IF isFemaleExpr(node.operand) THEN makeFemale(node.operand.operand)
  ELSE node

canonicalize(node) ==
  IF ~isNotExpr(node) THEN node
  ELSE IF isNotExpr(node.operand) THEN node.operand.operand
  ELSE IF isMaleExpr(node.operand) THEN makeFemale(node.operand.operand)
  ELSE IF isFemaleExpr(node.operand) THEN makeMale(node.operand.operand)
  ELSE node

RECURSIVE normalizeNode(_, _)
RECURSIVE normalizeElements(_, _)
\* node.elements.map(el => normalizeNode(el, options)): [elements |-> ...],
\* or [thrown |-> e] for the first element whose normalization throws
normalizeElements(els, options) ==
  IF els = <<>> THEN [elements |-> <<>>]
  ELSE LET h == normalizeNode(Head(els), options)
       IN IF IsNormalizationError(h) THEN [thrown |-> h]
          ELSE LET t == normalizeElements(Tail(els), options)
               IN IF "thrown" \in DOMAIN t THEN t
                  ELSE [elements |-> <<h>> \o t.elements]

normalizeNode(node, options) ==
  LET \* children are evaluated left to right; a throw leaves the function
      l == normalizeNode(node.left, options)
      r == normalizeNode(node.right, options)
      normalized ==
        IF isLinkExpr(node) THEN
          IF IsNormalizationError(l) THEN l
          ELSE IF IsNormalizationError(r) THEN r
          ELSE [node EXCEPT !.left = l, !.right = r]
        ELSE IF isNotLinkExpr(node) THEN
          IF IsNormalizationError(l) THEN l
          ELSE IF IsNormalizationError(r) THEN r
          ELSE IF options.desugarNotLink THEN makeNot(makeLink(l, r))
          ELSE [node EXCEPT !.left = l, !.right = r]
        ELSE IF isDefExpr(node) THEN
          LET n == normalizeNode(node.name, options)
              f == normalizeNode(node.form, options)
          IN IF IsNormalizationError(n) THEN n
             ELSE IF IsNormalizationError(f) THEN f
             ELSE LET d == [node EXCEPT !.name = n, !.form = f]
                  IN IF options.checkGuardedRecursion /\ checkGuardedRecursion(d)
                     THEN NormalizationError("Unguarded recursion")
                     ELSE d
        ELSE IF isEqExpr(node) \/ isNeqExpr(node) THEN
          IF IsNormalizationError(l) THEN l
          ELSE IF IsNormalizationError(r) THEN r
          ELSE [node EXCEPT !.left = l, !.right = r]
        ELSE IF isMaleExpr(node) \/ isFemaleExpr(node) \/ isNotExpr(node) THEN
          LET o == normalizeNode(node.operand, options)
          IN IF IsNormalizationError(o) THEN o ELSE [node EXCEPT !.operand = o]
        ELSE IF isPowerExpr(node) THEN
          LET base == normalizeNode(node.base, options)
          IN IF IsNormalizationError(base) THEN base
             ELSE IF options.expandPower THEN expandPower(base, node.exponent)
             ELSE [node EXCEPT !.base = base]
        ELSE IF isSetExpr(node) THEN
          LET els == normalizeElements(node.elements, options)
          IN IF "thrown" \in DOMAIN els THEN els.thrown
             ELSE [node EXCEPT !.elements = els.elements]
        ELSE node
  IN IF IsNormalizationError(normalized) THEN normalized
     ELSE IF options.canonicalize THEN canonicalize(normalized)
     ELSE normalized

\* normalize(node) with the default options
normalize(node) == normalizeNode(node, defaultOptions)

RECURSIVE toCanonicalString(_)
RECURSIVE mapCanonical(_)
\* elements.map(toCanonicalString)
mapCanonical(els) ==
  IF els = <<>> THEN <<>>
  ELSE <<toCanonicalString(Head(els))>> \o mapCanonical(Tail(els))

toCanonicalString(node) ==
  IF isLinkExpr(node) THEN
    <<"(">> \o toCanonicalString(node.left) \o <<"-", ">">>
            \o toCanonicalString(node.right) \o <<")">>
  ELSE IF isNotLinkExpr(node) THEN
    <<"(">> \o toCanonicalString(node.left) \o <<"!", "-", ">">>
            \o toCanonicalString(node.right) \o <<")">>
  ELSE IF isDefExpr(node) THEN
    <<"(">> \o toCanonicalString(node.name) \o <<":">>
            \o toCanonicalString(node.form) \o <<")">>
  ELSE IF isEqExpr(node) THEN
    <<"(">> \o toCanonicalString(node.left) \o <<"=">>
            \o toCanonicalString(node.right) \o <<")">>
  ELSE IF isNeqExpr(node) THEN
    <<"(">> \o toCanonicalString(node.left) \o <<"!", "=">>
            \o toCanonicalString(node.right) \o <<")">>
  ELSE IF isMaleExpr(node) THEN <<"male">> \o toCanonicalString(node.operand)
  ELSE IF isFemaleExpr(node) THEN toCanonicalString(node.operand) \o <<"female">>
  ELSE IF isNotExpr(node) THEN <<"!">> \o toCanonicalString(node.operand)
  ELSE IF isPowerExpr(node) THEN
    toCanonicalString(node.base) \o <<"^">> \o NumberToString(node.exponent)
  ELSE IF isSetExpr(node) THEN
    <<"{">> \o JoinStrings(SortStrings(mapCanonical(node.elements)), <<",">>) \o <<"}">>
  ELSE IF isInfinityExpr(node) THEN <<"inf">>
  ELSE IF isNumExpr(node) THEN NumberToString(node.value)
  ELSE IF isIdentExpr(node) THEN node.name
  ELSE IF isCharLitExpr(node) THEN <<"'", node.char, "'">>
  ELSE IF isBracketExpr(node) THEN (IF node.side = "left" THEN <<"[">> ELSE <<"]">>)
  ELSE <<"<", "unknown", ">">>

astEqual(a, b) == toCanonicalString(a) = toCanonicalString(b)

(***************************************************************************)
(* Prover kernel (prover.ts)                                               *)
(***************************************************************************)
\* the catalogue AXIOMS, an axiom being identified by its id
AXIOMS ==
  [A0 |-> "A0", A1 |-> "A1", A2 |-> "A2", A3 |-> "A3", A4 |-> "A4", A5 |-> "A5",
   A6 |-> "A6", A7 |-> "A7", A8 |-> "A8", A9 |-> "A9", A10 |-> "A10", A11 |-> "A11"]

\* Substitution = Map<string, ASTNode>: the entries in insertion order.
\* The value null of `Substitution | null` is the record Null.
EmptySubst == [entries |-> <<>>]
Null == [null |-> TRUE]
IsNull(s) == "null" \in DOMAIN s

\* subst.size
SubstSize(subst) == Len(subst.entries)
\* subst.has(name)
SubstHas(subst, name) == \E i \in 1..Len(subst.entries) : subst.entries[i].key = name
\* subst.get(name)!
SubstGet(subst, name) ==
  LET i == CHOOSE j \in 1..Len(subst.entries) : subst.entries[j].key = name
  IN subst.entries[i].value
\* a set that leaves the map as it was
SubstSetDropped(subst, name, term) == subst

\* new Map(subst).set(name, term)
SubstSet(subst, name, term) ==
  IF SubstHas(subst, name)
  THEN [entries |-> [i \in 1..Len(subst.entries) |->
                       IF subst.entries[i].key = name
                       THEN [key |-> name, value |-> term]
                       ELSE subst.entries[i]]]
  ELSE [entries |-> Append(subst.entries, [key |-> name, value |-> term])]

\* isVariable with the pattern left unanchored: /[a-z]/.test(name)
isVariableUnanchored(name) == \E i \in 1..Len(name) : name[i] \in LowerLatin

\* /^[a-z]$/.test(name)
isVariable(name) == Len(name) = 1 /\ name[1] \in LowerLatin

RECURSIVE occursIn(_, _)
occursIn(varName, term) ==
  IF isIdentExpr(term) THEN term.name = varName
  ELSE IF isLinkExpr(term)
    THEN occursIn(varName, term.left) \/ occursIn(varName, term.right)
  ELSE IF isMaleExpr(term) \/ isFemaleExpr(term) \/ isNotExpr(term)
    THEN occursIn(varName, term.operand)
  ELSE IF isSetExpr(term)
    THEN \E i \in 1..Len(term.elements) : occursIn(varName, term.elements[i])
  ELSE IF isEqExpr(term) \/ isNeqExpr(term)
    THEN occursIn(varName, term.left) \/ occursIn(varName, term.right)
  ELSE IF isDefExpr(term)
    THEN occursIn(varName, term.name) \/ occursIn(varName, term.form)
  ELSE FALSE

RECURSIVE applySubstitution(_, _)
applySubstitution(node, subst) ==
  IF SubstSize(subst) = 0 THEN node
  ELSE IF isIdentExpr(node) THEN
    IF SubstHas(subst, node.name)
    THEN applySubstitution(SubstGet(subst, node.name), subst)
    ELSE node
  ELSE IF isLinkExpr(node) \/ isEqExpr(node) \/ isNeqExpr(node) THEN
    [node EXCEPT !.left = applySubstitution(node.left, subst),
                 !.right = applySubstitution(node.right, subst)]
  ELSE IF isMaleExpr(node) \/ isFemaleExpr(node) \/ isNotExpr(node) THEN
    [node EXCEPT !.operand = applySubstitution(node.operand, subst)]
  ELSE IF isSetExpr(node) THEN
    [node EXCEPT !.elements =
       [i \in 1..Len(node.elements) |-> applySubstitution(node.elements[i], subst)]]
  ELSE IF isDefExpr(node) THEN
    [node EXCEPT !.name = applySubstitution(node.name, subst),
                 !.form = applySubstitution(node.form, subst)]
  ELSE node

RECURSIVE unify(_, _, _)
RECURSIVE unifyVar(_, _, _)
RECURSIVE unifyElements(_, _, _, _)

RECURSIVE unifyElementsCrossed(_, _, _, _)
\* the loop over the elements taking the second set from its end
unifyElementsCrossed(as, bs, i, s) ==
  IF i > Len(as) THEN s
  ELSE LET s1 == unify(as[i], bs[Len(bs) + 1 - i], s)
       IN IF IsNull(s1) THEN Null ELSE unifyElementsCrossed(as, bs, i + 1, s1)

unifyVar(varName, term, subst) ==
  IF SubstHas(subst, varName) THEN unify(SubstGet(subst, varName), term, subst)
  ELSE IF occursIn(varName, term) THEN Null
  ELSE SubstSet(subst, varName, term)

\* the loop of unify over the elements of two sets, from index i on
unifyElements(as, bs, i, s) ==
  IF i > Len(as) THEN s
  ELSE LET s1 == unify(as[i], bs[i], s)
       IN IF IsNull(s1) THEN Null ELSE unifyElements(as, bs, i + 1, s1)

unify(a0, b0, subst) ==
  LET a == applySubstitution(a0, subst)
      b == applySubstitution(b0, subst)
      \* the cases that unify two children in sequence
      pair(x1, y1, x2, y2) ==
        LET s1 == unify(x1, y1, subst)
        IN IF IsNull(s1) THEN Null ELSE unify(x2, y2, s1)
  IN IF toCanonicalString(a) = toCanonicalString(b) THEN subst
     ELSE IF isIdentExpr(a) /\ isVariable(a.name) THEN unifyVar(a.name, b, subst)
     ELSE IF isIdentExpr(b) /\ isVariable(b.name) THEN unifyVar(b.name, a, subst)
     ELSE IF isLinkExpr(a) /\ isLinkExpr(b) THEN pair(a.left, b.left, a.right, b.right)
     ELSE IF isMaleExpr(a) /\ isMaleExpr(b) THEN unify(a.operand, b.operand, subst)
     ELSE IF isFemaleExpr(a) /\ isFemaleExpr(b) THEN unify(a.operand, b.operand, subst)
     ELSE IF isNotExpr(a) /\ isNotExpr(b) THEN unify(a.operand, b.operand, subst)
     ELSE IF isSetExpr(a) /\ isSetExpr(b) THEN
       IF Len(a.elements) # Len(b.elements) THEN Null
       ELSE unifyElements(a.elements, b.elements, 1, subst)
     ELSE IF isEqExpr(a) /\ isEqExpr(b) THEN pair(a.left, b.left, a.right, b.right)
     ELSE IF isNeqExpr(a) /\ isNeqExpr(b) THEN pair(a.left, b.left, a.right, b.right)
     ELSE IF isDefExpr(a) /\ isDefExpr(b) THEN pair(a.name, b.name, a.form, b.form)
     ELSE IF isInfinityExpr(a) /\ isInfinityExpr(b) THEN subst
     ELSE IF isNumExpr(a) /\ isNumExpr(b) /\ a.value = b.value THEN subst
     ELSE IF isBracketExpr(a) /\ isBracketExpr(b) /\ a.side = b.side THEN subst
     ELSE Null

\* the RangeError ("Maximum call stack size exceeded") a recursion that never
\* ends is cut short with
RangeError == [type |-> "RangeError"]
IsRangeError(v) == v.type = "RangeError"

\* state.definitions is a function from the defined names to their forms
DefHas(definitions, name) == name \in DOMAIN definitions
DefSet(definitions, name, form) ==
  [n \in (DOMAIN definitions) \cup {name} |->
     IF n = name THEN form ELSE definitions[n]]

RECURSIVE expandDefinitionsFrom(_, _, _)
RECURSIVE expandElementsFrom(_, _, _)
\* expandDefinitions(node, state) reached while the names in `open` are being
\* expanded further up the call stack.  state.definitions does not change
\* during the call, so meeting a name of `open` again repeats the same calls
\* without end: the call stack overflows.
expandElementsFrom(els, definitions, open) ==
  IF els = <<>> THEN [elements |-> <<>>]
  ELSE LET h == expandDefinitionsFrom(Head(els), definitions, open)
       IN IF IsRangeError(h) THEN [thrown |-> h]
          ELSE LET t == expandElementsFrom(Tail(els), definitions, open)
               IN IF "thrown" \in DOMAIN t THEN t
                  ELSE [elements |-> <<h>> \o t.elements]

expandDefinitionsFrom(node, definitions, open) ==
  IF isIdentExpr(node) THEN
    IF DefHas(definitions, node.name)
    THEN IF node.name \in open THEN RangeError
         ELSE expandDefinitionsFrom(definitions[node.name], definitions,
                                    open \cup {node.name})
    ELSE node
  ELSE IF isLinkExpr(node) \/ isEqExpr(node) \/ isNeqExpr(node) THEN
    LET l == expandDefinitionsFrom(node.left, definitions, open)
        r == expandDefinitionsFrom(node.right, definitions, open)
    IN IF IsRangeError(l) THEN l
       ELSE IF IsRangeError(r) THEN r
       ELSE [node EXCEPT !.left = l, !.right = r]
  ELSE IF isMaleExpr(node) \/ isFemaleExpr(node) \/ isNotExpr(node) THEN
    LET o == expandDefinitionsFrom(node.operand, definitions, open)
    IN IF IsRangeError(o) THEN o ELSE [node EXCEPT !.operand = o]
  ELSE IF isSetExpr(node) THEN
    LET els == expandElementsFrom(node.elements, definitions, open)
    IN IF "thrown" \in DOMAIN els THEN els.thrown
       ELSE [node EXCEPT !.elements = els.elements]
  ELSE node

expandDefinitions(node, state) == expandDefinitionsFrom(node, state.definitions, {})

\* applyMaleAxiom with the two sides of the link exchanged
applyMaleAxiomSwapped(node) ==
  IF isMaleExpr(node) THEN Link(node.operand, node) ELSE Null

applyMaleAxiom(node) ==
  IF isMaleExpr(node) THEN Link(node, node.operand) ELSE Null

\* applyFemaleAxiom with the two sides of the link exchanged
applyFemaleAxiomSwapped(node) ==
  IF isFemaleExpr(node) THEN Link(node, node.operand) ELSE Null

applyFemaleAxiom(node) ==
  IF isFemaleExpr(node) THEN Link(node.operand, node) ELSE Null

\* the generic hint pushed after the others whatever they are
orGenericHintAlways(hints) ==
  Append(hints, [type |-> "suggestion", message |-> "cannot be unified"])

\* if (hints.length === 0) hints.push(the generic hint)
orGenericHint(hints) ==
  IF Len(hints) = 0
  THEN <<[type |-> "suggestion", message |-> "cannot be unified"]>>
  ELSE hints

generateEqualityHints(left, right, expLeft, expRight) ==
  LET h1 == IF left.type # right.type
            THEN <<[type |-> "structural", message |-> "different expression types"]>>
            ELSE <<>>
      h2 == IF \/ isMaleExpr(expLeft) /\ isFemaleExpr(expRight)
               \/ isFemaleExpr(expLeft) /\ isMaleExpr(expRight)
            THEN <<[type |-> "suggestion", message |-> "male and female are dual",
                    relatedAxiom |-> "A7"]>>
            ELSE <<>>
      h3 == IF isMaleExpr(expLeft) \/ isMaleExpr(expRight)
            THEN <<[type |-> "axiom", message |-> "try axiom A5",
                    relatedAxiom |-> "A5"]>>
            ELSE <<>>
      h4 == IF isFemaleExpr(expLeft) \/ isFemaleExpr(expRight)
            THEN <<[type |-> "axiom", message |-> "try axiom A6",
                    relatedAxiom |-> "A6"]>>
            ELSE <<>>
      h5 == IF isInfinityExpr(expLeft) \/ isInfinityExpr(expRight)
            THEN <<[type |-> "axiom", message |-> "try axiom A4",
                    relatedAxiom |-> "A4"]>>
            ELSE <<>>
      h6 == IF isLinkExpr(expLeft) /\ isLinkExpr(expRight)
            THEN <<[type |-> "suggestion", message |-> "check the structure of the links"]>>
            ELSE <<>>
  IN orGenericHint(h1 \o h2 \o h3 \o h4 \o h5 \o h6)

\* an assignment state.trace = [entry] in place of the push
pushTraceReplacing(trace, entry) == <<entry>>

\* state.trace.push(entry)
pushTrace(trace, entry) == Append(trace, entry)

\* the schema of A4 unfolded once more on the left
infLinkUnfolded == Link(Link(Infinity, Infinity), Infinity)

\* the link the schema of A4 compares the other side with
infLink == Link(Infinity, Infinity)

\* `${a} = ${b}`
EqText(a, b) == a \o <<" ", "=", " ">> \o b

\* The value of a call that has side effects on state.trace: what the call
\* returned or threw (`outcome`) and state.trace when it ended (`trace`).
\* The `steps` of a result is [own |-> items], or [ref |-> "state.trace"] when
\* the result holds state.trace itself, the array the state goes on using.
\* checkEquality is one function in the source; here each stage hands the
\* values it computed to the next one.

\* a successful return after the expansion of definitions
equalityProved(message, steps, action, axiom, extra, proofSteps, appliedAxioms, trace) ==
  [outcome |->
     [success |-> TRUE, message |-> message, steps |-> [own |-> steps],
      proofSteps |-> Append(proofSteps,
                            [index |-> Len(proofSteps) + 1,
                             action |-> action, axiom |-> axiom] @@ extra),
      appliedAxioms |-> Append(appliedAxioms, axiom)],
   trace |-> trace]

\* the cascade of axiom schemas with the schema side looked for on the left
\* only, the reverse branches left out
checkEqualityAxiomsForward(left, right, expLeft, expRight, expLeftStr, expRightStr, proofSteps, appliedAxioms, trace) ==
  LET subst == unify(expLeft, expRight, EmptySubst)
      maleExpL == applyMaleAxiom(expLeft)
      maleExpR == applyMaleAxiom(expRight)
      femaleExpL == applyFemaleAxiom(expLeft)
      femaleExpR == applyFemaleAxiom(expRight)
  IN IF astEqual(expLeft, expRight) THEN
       equalityProved("equality after definition expansion (A0, A1)",
                      <<"Expanded definitions", "Structural comparison">>,
                      "structural comparison after expansion", AXIOMS.A1, <<>>,
                      proofSteps, appliedAxioms, trace)
     ELSE IF ~IsNull(subst) THEN
       LET r == equalityProved("unification succeeded (A1)", <<"Unification">>,
                               "unification", AXIOMS.A1, <<>>,
                               proofSteps, appliedAxioms, trace)
       IN [r EXCEPT !.outcome = r.outcome @@ [substitution |-> subst]]
     ELSE IF isMaleExpr(expLeft) /\ ~IsNull(maleExpL) /\ astEqual(maleExpL, expRight) THEN
       equalityProved("axiom A5 applied", <<"male x : (male x -> x)">>, "axiom A5",
                      AXIOMS.A5,
                      [before |-> expLeftStr, after |-> toCanonicalString(maleExpL)],
                      proofSteps, appliedAxioms, trace)
     ELSE IF isFemaleExpr(expLeft) /\ ~IsNull(femaleExpL)
             /\ astEqual(femaleExpL, expRight) THEN
       equalityProved("axiom A6 applied", <<"x female : (x -> x female)">>, "axiom A6",
                      AXIOMS.A6,
                      [before |-> expLeftStr, after |-> toCanonicalString(femaleExpL)],
                      proofSteps, appliedAxioms, trace)
     ELSE IF isInfinityExpr(expLeft) /\ astEqual(infLink, expRight) THEN
       equalityProved("axiom A4 applied", <<"inf : (inf -> inf)">>, "axiom A4",
                      AXIOMS.A4,
                      [before |-> <<"inf">>, after |-> toCanonicalString(infLink)],
                      proofSteps, appliedAxioms, trace)
     ELSE
       [outcome |->
          [success |-> FALSE, message |-> "cannot prove the equality",
           steps |-> [ref |-> "state.trace"],
           proofSteps |-> Append(proofSteps,
                                 [index |-> Len(proofSteps) + 1,
                                  action |-> "verification failed"]),
           appliedAxioms |-> appliedAxioms,
           hints |-> generateEqualityHints(left, right, expLeft, expRight)],
        trace |-> trace]

\* checkEquality from the unification on: the cascade of axiom schemas
checkEqualityAxioms(left, right, expLeft, expRight, expLeftStr, expRightStr, proofSteps, appliedAxioms, trace) ==
  LET subst == unify(expLeft, expRight, EmptySubst)
      maleExpL == applyMaleAxiom(expLeft)
      maleExpR == applyMaleAxiom(expRight)
      femaleExpL == applyFemaleAxiom(expLeft)
      femaleExpR == applyFemaleAxiom(expRight)
  IN IF astEqual(expLeft, expRight) THEN
       equalityProved("equality after definition expansion (A0, A1)",
                      <<"Expanded definitions", "Structural comparison">>,
                      "structural comparison after expansion", AXIOMS.A1, <<>>,
                      proofSteps, appliedAxioms, trace)
     ELSE IF ~IsNull(subst) THEN
       LET r == equalityProved("unification succeeded (A1)", <<"Unification">>,
                               "unification", AXIOMS.A1, <<>>,
                               proofSteps, appliedAxioms, trace)
       IN [r EXCEPT !.outcome = r.outcome @@ [substitution |-> subst]]
     ELSE IF isMaleExpr(expLeft) /\ ~IsNull(maleExpL) /\ astEqual(maleExpL, expRight) THEN
       equalityProved("axiom A5 applied", <<"male x : (male x -> x)">>, "axiom A5",
                      AXIOMS.A5,
                      [before |-> expLeftStr, after |-> toCanonicalString(maleExpL)],
                      proofSteps, appliedAxioms, trace)
     ELSE IF isMaleExpr(expRight) /\ ~IsNull(maleExpR) /\ astEqual(expLeft, maleExpR) THEN
       equalityProved("axiom A5 applied (reverse)", <<"male x : (male x -> x)">>,
                      "axiom A5 (reverse)", AXIOMS.A5,
                      [before |-> expRightStr, after |-> toCanonicalString(maleExpR)],
                      proofSteps, appliedAxioms, trace)
     ELSE IF isFemaleExpr(expLeft) /\ ~IsNull(femaleExpL)
             /\ astEqual(femaleExpL, expRight) THEN
       equalityProved("axiom A6 applied", <<"x female : (x -> x female)">>, "axiom A6",
                      AXIOMS.A6,
                      [before |-> expLeftStr, after |-> toCanonicalString(femaleExpL)],
                      proofSteps, appliedAxioms, trace)
     ELSE IF isFemaleExpr(expRight) /\ ~IsNull(femaleExpR)
             /\ astEqual(expLeft, femaleExpR) THEN
       equalityProved("axiom A6 applied (reverse)", <<"x female : (x -> x female)">>,
                      "axiom A6 (reverse)", AXIOMS.A6,
                      [before |-> expRightStr, after |-> toCanonicalString(femaleExpR)],
                      proofSteps, appliedAxioms, trace)
     ELSE IF isInfinityExpr(expLeft) /\ astEqual(infLink, expRight) THEN
       equalityProved("axiom A4 applied", <<"inf : (inf -> inf)">>, "axiom A4",
                      AXIOMS.A4,
                      [before |-> <<"inf">>, after |-> toCanonicalString(infLink)],
                      proofSteps, appliedAxioms, trace)
     ELSE IF isInfinityExpr(expRight) /\ astEqual(expLeft, infLink) THEN
       equalityProved("axiom A4 applied (reverse)", <<"inf : (inf -> inf)">>,
                      "axiom A4 (reverse)", AXIOMS.A4,
                      [before |-> toCanonicalString(infLink), after |-> <<"inf">>],
                      proofSteps, appliedAxioms, trace)
     ELSE
       [outcome |->
          [success |-> FALSE, message |-> "cannot prove the equality",
           steps |-> [ref |-> "state.trace"],
           proofSteps |-> Append(proofSteps,
                                 [index |-> Len(proofSteps) + 1,
                                  action |-> "verification failed"]),
           appliedAxioms |-> appliedAxioms,
           hints |-> generateEqualityHints(left, right, expLeft, expRight)],
        trace |-> trace]

\* checkEquality once both sides are expanded: the record of the expansion
checkEqualityExpanded(left, right, leftStr, rightStr, expLeft, expRight, expLeftStr, expRightStr, step1, trace1) ==
  LET expanded == leftStr # expLeftStr \/ rightStr # expRightStr
  IN checkEqualityAxioms(
       left, right, expLeft, expRight, expLeftStr, expRightStr,
       IF expanded
       THEN <<step1, [index |-> 2, action |-> "definition expansion",
                      before |-> EqText(leftStr, rightStr),
                      after |-> EqText(expLeftStr, expRightStr),
                      axiom |-> AXIOMS.A0]>>
       ELSE <<step1>>,
       IF expanded THEN <<AXIOMS.A0>> ELSE <<>>,
       pushTrace(trace1, [text |-> "After expansion", left |-> expLeftStr,
                          right |-> expRightStr]))

\* checkEquality from the expansion of definitions on; an expansion that
\* throws leaves the function
checkEqualityExpand(left, right, leftStr, rightStr, expLeft, expRight, step1, trace1) ==
  IF IsRangeError(expLeft) THEN [outcome |-> expLeft, trace |-> trace1]
  ELSE IF IsRangeError(expRight) THEN [outcome |-> expRight, trace |-> trace1]
  ELSE checkEqualityExpanded(left, right, leftStr, rightStr, expLeft, expRight,
                             toCanonicalString(expLeft), toCanonicalString(expRight),
                             step1, trace1)

\* the structural comparison preceded by a look into state.facts for the
\* canonical string of the equality
checkEqualityNormalizedByFacts(left, right, state, normLeft, normRight, leftStr, rightStr, step1, trace1) ==
  IF astEqual(normLeft, normRight)
     \/ toCanonicalString(Equality(normLeft, normRight)) \in state.facts THEN
    [outcome |->
       [success |-> TRUE, message |-> "structural equality (A1)",
        steps |-> [own |-> <<"Direct structural comparison">>],
        proofSteps |-> <<step1, [index |-> 2, action |-> "structural comparison",
                                 axiom |-> AXIOMS.A1]>>,
        appliedAxioms |-> <<AXIOMS.A1>>],
     trace |-> trace1]
  ELSE checkEqualityExpand(left, right, leftStr, rightStr,
                           expandDefinitions(normLeft, state),
                           expandDefinitions(normRight, state), step1, trace1)

\* checkEquality once both sides are normalized: the structural comparison
checkEqualityNormalized(left, right, state, normLeft, normRight, leftStr, rightStr, step1, trace1) ==
  IF astEqual(normLeft, normRight) THEN
    [outcome |->
       [success |-> TRUE, message |-> "structural equality (A1)",
        steps |-> [own |-> <<"Direct structural comparison">>],
        proofSteps |-> <<step1, [index |-> 2, action |-> "structural comparison",
                                 axiom |-> AXIOMS.A1]>>,
        appliedAxioms |-> <<AXIOMS.A1>>],
     trace |-> trace1]
  ELSE checkEqualityExpand(left, right, leftStr, rightStr,
                           expandDefinitions(normLeft, state),
                           expandDefinitions(normRight, state), step1, trace1)

\* checkEquality after the two calls of normalize
checkEqualityNormalize(left, right, state, normLeft, normRight, leftStr, rightStr) ==
  checkEqualityNormalized(
    left, right, state, normLeft, normRight, leftStr, rightStr,
    [index |-> 1, action |-> "normalization",
     before |-> EqText(toCanonicalString(left), toCanonicalString(right)),
     after |-> EqText(leftStr, rightStr)],
    pushTrace(state.trace, [text |-> "Checking", left |-> leftStr, right |-> rightStr]))

\* normalize(left) and normalize(right); a throw leaves the function
checkEqualityThrown(left, right, state, normLeft, normRight) ==
  IF IsNormalizationError(normLeft) THEN [outcome |-> normLeft, trace |-> state.trace]
  ELSE IF IsNormalizationError(normRight)
    THEN [outcome |-> normRight, trace |-> state.trace]
  ELSE checkEqualityNormalize(left, right, state, normLeft, normRight,
                              toCanonicalString(normLeft), toCanonicalString(normRight))

checkEquality(left, right, state) ==
  checkEqualityThrown(left, right, state, normalize(left), normalize(right))

IsThrown(outcome) == "type" \in DOMAIN outcome

\* what checkInequality makes of eqResult, handing on nothing of the equality
inequalityFromNoEcho(left, right, eq) ==
  IF IsThrown(eq.outcome) THEN eq
  ELSE [outcome |->
          [success |-> ~eq.outcome.success,
           message |-> IF eq.outcome.success THEN "inequality does not hold"
                       ELSE "inequality holds",
           steps |-> [own |-> <<>>], proofSteps |-> <<>>, appliedAxioms |-> <<>>],
        trace |-> eq.trace]

\* what checkInequality makes of eqResult = checkEquality(left, right, state)
inequalityFrom(left, right, eq) ==
  IF IsThrown(eq.outcome) THEN eq
  ELSE IF ~eq.outcome.success THEN
    [outcome |->
       [success |-> TRUE, message |-> "inequality holds",
        steps |-> [own |-> <<"Tried to prove equality", "Failed",
                             "Therefore inequality holds">>],
        proofSteps |-> <<[index |-> 1, action |-> "trying to prove the equality",
                          details |-> EqText(toCanonicalString(left),
                                             toCanonicalString(right))],
                         [index |-> 2, action |-> "equality not proved"],
                         [index |-> 3, action |-> "inequality holds"]>>,
        appliedAxioms |-> <<>>],
     trace |-> eq.trace]
  ELSE
    [outcome |->
       [success |-> FALSE, message |-> "inequality does not hold",
        steps |-> eq.outcome.steps,
        proofSteps |-> <<[index |-> 1, action |-> "trying to prove the equality",
                          details |-> EqText(toCanonicalString(left),
                                             toCanonicalString(right))],
                         [index |-> 2, action |-> "equality proved",
                          details |-> eq.outcome.message],
                         [index |-> 3, action |-> "inequality does not hold"]>>,
        appliedAxioms |-> eq.outcome.appliedAxioms,
        hints |-> <<[type |-> "suggestion", message |-> "the expressions are equal"]>>],
     trace |-> eq.trace]

checkInequality(left, right, state) ==
  inequalityFrom(left, right, checkEquality(left, right, state))

\* the definition stored whole: state.definitions.set(name, normalized)
registerDefinitionWhole(state, normalized) ==
  [state EXCEPT !.definitions =
     DefSet(state.definitions, normalized.name.name, normalized)]

\* state.definitions.set(normalized.name.name, normalized.form)
registerDefinition(state, normalized) ==
  [state EXCEPT !.definitions =
     DefSet(state.definitions, normalized.name.name, normalized.form)]

\* the failure for a bad definition name returned without its hint
definitionNameFailureNoHint ==
  [success |-> FALSE, message |-> "the name of a definition must be an identifier",
   steps |-> [own |-> <<>>], proofSteps |-> <<>>, appliedAxioms |-> <<>>,
   hints |-> <<>>]

\* the result for a definition whose name is not an identifier
definitionNameFailure ==
  [success |-> FALSE, message |-> "the name of a definition must be an identifier",
   steps |-> [own |-> <<>>], proofSteps |-> <<>>, appliedAxioms |-> <<>>,
   hints |-> <<[type |-> "structural",
                message |-> "the name of a definition must be an identifier"]>>]

\* the result for a node that is no equality, inequality or definition
unsupportedFailure(node) ==
  [success |-> FALSE,
   message |-> "cannot verify an expression of type: " \o node.type,
   steps |-> [own |-> <<>>], proofSteps |-> <<>>, appliedAxioms |-> <<>>,
   hints |-> <<[type |-> "suggestion",
                message |-> "supported: equality, inequality, definition"]>>]

\* The value of verify(node, state): `outcome` as above and the ProverState
\* when the call ended.
\* what verify returns from a check, state.trace being what the check left
verifyChecked(state, r) ==
  [outcome |-> r.outcome, state |-> [state EXCEPT !.trace = r.trace]]

\* verify after normalize(node): the dispatch on the type of the normalized node
verifyNormalized(node, state, normalized) ==
  IF IsNormalizationError(normalized) THEN [outcome |-> normalized, state |-> state]
  ELSE IF isEqExpr(normalized)
    THEN verifyChecked(state, checkEquality(normalized.left, normalized.right, state))
  ELSE IF isNeqExpr(normalized)
    THEN verifyChecked(state, checkInequality(normalized.left, normalized.right, state))
  ELSE IF isDefExpr(normalized) THEN
    IF isIdentExpr(normalized.name) THEN
      [outcome |->
         [success |-> TRUE, message |-> "definition added",
          steps |-> [own |-> <<"Definition registered">>],
          proofSteps |-> <<[index |-> 1, action |-> "definition registered",
                            details |-> normalized.name.name \o <<" ", ":", " ">>
                                        \o toCanonicalString(normalized.form),
                            axiom |-> AXIOMS.A0]>>,
          appliedAxioms |-> <<AXIOMS.A0>>],
       state |-> registerDefinition(state, normalized)]
    ELSE [outcome |-> definitionNameFailure, state |-> state]
  ELSE [outcome |-> unsupportedFailure(node), state |-> state]

\* verify storing the definition as written before normalize(node) is called
verifyRegisterFirst(node, state) ==
  IF isDefExpr(node) /\ isIdentExpr(node.name)
  THEN verifyNormalized(node, registerDefinition(state, node), normalize(node))
  ELSE verifyNormalized(node, state, normalize(node))

verify(node, state) == verifyNormalized(node, state, normalize(node))

\* parseAndNormalize applied to the five built-in formula texts: normalize of
\* the tree parseExpr gives for the text
createProverState ==
  [axioms |-> <<>>,
   definitions |->
     (<<"inf">> :> normalize(Link(Infinity, Infinity)))
     @@ (<<"1">> :> normalize(Link(Male(Infinity), Female(Infinity))))
     @@ (<<"0">> :> normalize(Not(Num(1))))
     @@ (<<"[">> :> normalize(Male(Infinity)))
     @@ (<<"]">> :> normalize(Female(Infinity))),
   facts |-> {<<"(", "x", "=", "x", ")">>,
              toCanonicalString(Equality(normalize(Not(Infinity)), normalize(Infinity)))},
   trace |-> <<>>]

(***************************************************************************)
(* Inputs                                                                  *)
(***************************************************************************)
x  == Identifier(<<"x">>)
y  == Identifier(<<"y">>)
v  == Identifier(<<"v">>)
aa == Identifier(<<"a", "a">>)
bb == Identifier(<<"b", "b">>)
cc == Identifier(<<"c", "c">>)

\* the statements of a file, as the trees the parser gives for them
Definitions ==
  { Definition(aa, bb),                       \* aa : bb.
    Definition(aa, Link(aa, bb)),             \* aa : aa -> bb.
    Definition(bb, Link(aa, aa)),             \* bb : aa -> aa.
    Definition(aa, Not(Male(bb))),            \* aa : !male bb.
    Definition(aa, aa),                       \* aa : aa.
    Definition(Male(x), Link(Male(x), x)),    \* male x : (male x -> x).
    Definition(Not(Not(aa)), bb),             \* !!aa : bb.
    Definition(aa, Power(aa, 2)) }            \* aa : aa^2.

Equalities ==
  { Equality(aa, bb),                         \* aa = bb.
    Equality(aa, Link(aa, bb)),               \* aa = aa -> bb.
    Equality(aa, aa),                         \* aa = aa.
    Equality(x, aa),                          \* x = aa.
    Equality(Male(bb), Link(Male(bb), bb)),   \* male bb = male bb -> bb.
    Equality(Male(Infinity), Female(Infinity)),  \* male inf = inf female.
    Equality(Infinity, Male(aa)),             \* inf = male aa.
    Equality(Link(aa, bb), Link(bb, aa)) }    \* aa -> bb = bb -> aa.

Inequalities ==
  { Inequality(aa, bb),                       \* aa != bb.
    Inequality(aa, aa) }                      \* aa != aa.

OtherNodes ==
  { Link(aa, bb),                             \* aa -> bb.
    Not(Not(Equality(aa, aa))),               \* !!(aa = aa).
    Power(Equality(aa, bb), 1) }              \* (aa = bb)^1.

\* verify is called on the tree of a statement, or on normalize of it as
\* parseAndVerify and the unit tests do
Normalized(nodes) ==
  {normalize(n) : n \in {m \in nodes : ~IsNormalizationError(normalize(m))}}

Statements ==
  LET raw == Definitions \cup Equalities \cup Inequalities \cup OtherNodes
  IN raw \cup Normalized(raw)

\* the sides checkEquality and checkInequality are called on directly
Sides ==
  {<<aa, bb>>, <<aa, aa>>, <<aa, Link(aa, bb)>>, <<Power(bb, 2), Link(bb, bb)>>,
   <<Not(Not(aa)), bb>>}

(***************************************************************************)
(* The session: one ProverState threaded through the calls made on it      *)
(***************************************************************************)
VARIABLES
  state,    \* the ProverState of the session
  results,  \* the results returned in the session so far, oldest first
  error,    \* the error a call of the session threw, or "none"
  last      \* the last call: operation, arguments, state before, outcome

vars == <<state, results, error, last>>

NoCall == [op |-> "createProverState"]

Init ==
  /\ state = createProverState
  /\ results = <<>>
  /\ error = "none"
  /\ last = NoCall

\* parseAndVerify starting over on a changed input: a new ProverState
ParseAndVerify ==
  /\ state' = createProverState
  /\ results' = <<>>
  /\ error' = "none"
  /\ last' = NoCall

\* what a call leaves behind: a result is added to the results; a throw ends
\* the loop over the statements
Finish(call, outcome, post) ==
  /\ state' = post
  /\ error' = IF IsThrown(outcome) THEN outcome.type ELSE "none"
  /\ results' = IF IsThrown(outcome) THEN results ELSE Append(results, outcome)
  /\ last' = call @@ [pre |-> state, outcome |-> outcome]

\* what a check leaves behind
FinishCheck(call, r) == Finish(call, r.outcome, [state EXCEPT !.trace = r.trace])

\* what verify leaves behind
FinishVerify(call, r) == Finish(call, r.outcome, r.state)

\* verify(node, state) called on the state of the session
Verify(node) ==
  /\ error = "none"
  /\ Len(results) < MaxStmts
  /\ FinishVerify([op |-> "verify", node |-> node], verify(node, state))

\* checkEquality(left, right, state) called on the state of the session
CheckEquality(left, right) ==
  /\ error = "none"
  /\ Len(results) < MaxStmts
  /\ FinishCheck([op |-> "checkEquality", left |-> left, right |-> right],
                 checkEquality(left, right, state))

\* checkInequality(left, right, state) called on the state of the session
CheckInequality(left, right) ==
  /\ error = "none"
  /\ Len(results) < MaxStmts
  /\ FinishCheck([op |-> "checkInequality", left |-> left, right |-> right],
                 checkInequality(left, right, state))

Next ==
  \/ ParseAndVerify
  \/ \E node \in Statements : Verify(node)
  \/ \E s \in Sides : CheckEquality(s[1], s[2])
  \/ \E s \in Sides : CheckInequality(s[1], s[2])

Spec == Init /\ [][Next]_vars

(***************************************************************************)
(* One statement verified on a state fresh from createProverState(), the   *)
(* way the unit and integration tests call verify                          *)
(***************************************************************************)
RECURSIVE Nest(_, _)
\* the terms of `base` under at most k prefixes male / postfixes female
Nest(base, k) ==
  IF k = 0 THEN base
  ELSE LET inner == Nest(base, k - 1)
       IN inner \cup {Male(t) : t \in inner} \cup {Female(t) : t \in inner}

\* the operands t of the self-closure schemas
SchemaOperands ==
  Nest({v, x, aa, Infinity, Num(1), Bracket("left"), CharLit("c"),
        Link(aa, bb), Link(Infinity, Infinity), Not(aa), Not(Male(v)),
        Power(v, 2), NotLink(aa, bb), SetExpr(<<bb, aa>>)}, MaxNest)

RECURSIVE LeftChain(_)
\* the left-nested chain of infinities with n links: inf -> inf -> ... -> inf
LeftChain(n) == IF n = 1 THEN Link(Infinity, Infinity)
                ELSE Link(LeftChain(n - 1), Infinity)

InfinityTerms ==
  {Infinity, Link(Infinity, Link(Infinity, Infinity)), Link(Infinity, aa)}
    \cup {LeftChain(n) : n \in 1..MaxChain}

\* the operands a and b of the inversion !(a -> b) = (b -> a)
InversionOperands == {x, y, aa, bb, Infinity, Male(aa)}

\* the built-ins createProverState seeds, written as equalities
BuiltinStatements ==
  {Equality(Num(1), Link(Male(Infinity), Female(Infinity))),
   Equality(Num(0), Not(Num(1))),
   Equality(Bracket("left"), Male(Infinity)),
   Equality(Bracket("right"), Female(Infinity)),
   Equality(Not(Infinity), Infinity)}

\* equalities that are instances of a schema only under a binding of x
UnboundSchemas ==
  {Equality(Male(aa), Link(Male(x), aa)), Equality(Link(Male(x), aa), Male(aa)),
   Equality(Female(aa), Link(aa, Female(x))), Equality(Link(x, Female(aa)), Female(aa)),
   Equality(Infinity, Link(x, Infinity)), Equality(Link(Male(x), x), Link(Male(aa), aa))}

FreshStatements ==
  UNION {{Equality(Male(t), Link(Male(t), t)), Equality(Link(Male(t), t), Male(t)),
          Equality(Female(t), Link(t, Female(t))), Equality(Link(t, Female(t)), Female(t)),
          Equality(Male(t), Link(t, Male(t))), Equality(Female(t), Link(Female(t), t))}
         : t \in SchemaOperands}
    \cup {Equality(l, r) : l \in InfinityTerms, r \in InfinityTerms}
    \cup {Equality(Not(Link(a, b)), Link(b, a)) : a \in InversionOperands,
                                                  b \in InversionOperands}
    \cup BuiltinStatements
    \cup UnboundSchemas

\* const s = createProverState(); verify(node, s)
VerifyFresh(node) ==
  /\ last = NoCall
  /\ FinishVerify([op |-> "verify", node |-> node], verify(node, state))

\* const s = createProverState(); checkEquality(left, right, s)
CheckEqualityFresh(left, right) ==
  /\ last = NoCall
  /\ FinishCheck([op |-> "checkEquality", left |-> left, right |-> right],
                 checkEquality(left, right, state))

InitFresh == Init

NextFresh ==
  \/ \E node \in FreshStatements : VerifyFresh(node)
  \/ \E l \in InfinityTerms, r \in InfinityTerms : CheckEqualityFresh(l, r)

SpecFresh == InitFresh /\ [][NextFresh]_vars

(***************************************************************************)
(* unify called on two terms with the empty substitution                   *)
(***************************************************************************)
UnifyTerms ==
  {x, y, aa, bb, Identifier(<<"A">>), Identifier(<<"x", "x">>), Identifier(<<"1", "0">>),
   Infinity, Num(0), CharLit("x"),
   Link(x, aa), Link(aa, bb), Link(y, x), Male(x), Female(aa), Not(x),
   Link(Male(x), y), SetExpr(<<x, aa>>), SetExpr(<<aa, bb>>),
   Equality(x, aa), Definition(bb, x),
   Power(x, 2), Power(aa, 2), NotLink(x, aa), NotLink(aa, bb),
   Link(x, y), Link(Link(y, aa), x), Link(aa, x), Male(aa), Male(Female(x)),
   Female(Male(x)), SetExpr(<<aa>>), SetExpr(<<x, y>>), SetExpr(<<bb, x>>),
   SetExpr(<<x, aa, bb>>), SetExpr(<<aa, x>>)}

Unify(a, b) ==
  /\ last' = [op |-> "unify", a |-> a, b |-> b, subst |-> EmptySubst,
              result |-> unify(a, b, EmptySubst)]
  /\ UNCHANGED <<state, results, error>>

\* the normalized terms without sets astEqual is called on: up to two
\* operators over an atom, or one operator over a link of atoms
EqualAtoms == {x, aa, Infinity}
EqualLayer(terms) == terms \cup {Male(t) : t \in terms} \cup {Female(t) : t \in terms} \cup {Not(t) : t \in terms}
EqualTerms ==
  LET links == {Link(a, b) : a \in EqualAtoms, b \in EqualAtoms}
  IN {t \in EqualLayer(EqualLayer(EqualAtoms) \cup links) : normalize(t) = t}

AstEqual(a, b) ==
  /\ last' = [op |-> "astEqual", a |-> a, b |-> b, result |-> astEqual(a, b)]
  /\ UNCHANGED <<state, results, error>>

InitUnify == Init

NextUnify ==
  /\ last = NoCall
  /\ \/ \E a \in UnifyTerms, b \in UnifyTerms : Unify(a, b)
     \/ \E a \in EqualTerms, b \in EqualTerms : AstEqual(a, b)

SpecUnify == InitUnify /\ [][NextUnify]_vars
(***************************************************************************)
(* One call on a ProverState a caller has built: definitions registered,   *)
(* facts added with addAxiomEq, axioms listed, a trace left by checks      *)
(***************************************************************************)
StateDefinitions ==
  {createProverState.definitions,
   DefSet(createProverState.definitions, aa.name, bb),
   DefSet(createProverState.definitions, aa.name, Female(bb)),
   DefSet(DefSet(createProverState.definitions, aa.name, Male(bb)), bb.name, Infinity),
   DefSet(createProverState.definitions, aa.name, Link(aa, bb))}

StateFacts ==
  {createProverState.facts, {},
   createProverState.facts \cup {toCanonicalString(Equality(aa, bb)),
                                 toCanonicalString(Equality(Male(aa), Female(aa)))}}

\* axioms: ASTNode[], the axioms as links
StateAxioms == {<<>>, <<Link(Not(Infinity), Infinity)>>}

StateTraces ==
  {<<>>, <<[text |-> "Checking", left |-> toCanonicalString(aa),
            right |-> toCanonicalString(bb)]>>}

ProverStates ==
  [axioms : StateAxioms, definitions : StateDefinitions, facts : StateFacts,
   trace : StateTraces]

StateStatements ==
  Definitions \cup Equalities \cup Inequalities \cup OtherNodes \cup BuiltinStatements
    \cup UnboundSchemas \cup {Equality(Male(aa), Female(aa)), Inequality(Not(Infinity), Infinity)}

\* the sides checkEquality is called on, in both orders
StateTerms ==
  {aa, bb, x, Infinity, Num(1), Male(aa), Male(bb), Female(bb), Not(aa),
   Link(aa, bb), Link(bb, aa), Link(aa, aa), Link(x, bb), Link(Infinity, Infinity),
   Link(Male(aa), aa), Link(Male(bb), bb), Link(Male(x), bb), Link(bb, Female(bb)),
   Link(Link(Infinity, Infinity), Infinity), Power(bb, 2)}

\* verify(node, state) on such a state
VerifyOn(node) ==
  FinishVerify([op |-> "verify", node |-> node], verify(node, state))

\* checkEquality(left, right, state) on such a state
CheckEqualityOn(left, right) ==
  FinishCheck([op |-> "checkEquality", left |-> left, right |-> right],
              checkEquality(left, right, state))

InitStates ==
  /\ state \in ProverStates
  /\ results = <<>>
  /\ error = "none"
  /\ last = NoCall

NextStates ==
  /\ last = NoCall
  /\ \/ \E node \in StateStatements : VerifyOn(node)
     \/ \E l \in StateTerms, r \in StateTerms : CheckEqualityOn(l, r)

SpecStates == InitStates /\ [][NextStates]_vars

(***************************************************************************)
(* Properties                                                              *)
(***************************************************************************)
\* the last call went through checkEquality: directly, through
\* checkInequality, or through verify of an equality or inequality
LastChecks ==
  \/ last.op \in {"checkEquality", "checkInequality"}
  \/ last.op = "verify" /\ (isEqExpr(last.node) \/ isNeqExpr(last.node))

Returned == "outcome" \in DOMAIN last /\ ~IsThrown(last.outcome)

\* C1: checkEquality and checkInequality always return a ProofResult: on
\* well-formed terms and in every state reached by verify calls they end
\* without throwing, an unprovable equality giving success = FALSE.
C1_ChecksAlwaysReturn ==
  LastChecks => /\ ~IsThrown(last.outcome)
                /\ last.outcome.success \in BOOLEAN

\* the sides of the last inequality check
LastLeft == IF last.op = "verify" THEN normalize(last.node).left ELSE last.left
LastRight == IF last.op = "verify" THEN normalize(last.node).right ELSE last.right
LastIsInequality ==
  \/ last.op = "checkInequality"
  \/ last.op = "verify" /\ isNeqExpr(last.node)

\* C2: checkInequality succeeds exactly when checkEquality on the same sides
\* and state fails; when the equality succeeds, the failed inequality carries
\* the steps and the appliedAxioms of the equality.
C2_InequalityNegatesEquality ==
  (LastIsInequality /\ Returned) =>
    LET eq == checkEquality(LastLeft, LastRight, last.pre).outcome
    IN /\ ~IsThrown(eq)
       /\ last.outcome.success = ~eq.success
       /\ eq.success => /\ last.outcome.steps = eq.steps
                        /\ last.outcome.appliedAxioms = eq.appliedAxioms

\* an inequality failed on an equality proved by expanding a definition
C2_Witness ==
  /\ LastIsInequality /\ Returned
  /\ ~last.outcome.success
  /\ last.outcome.appliedAxioms = <<"A0", "A1">>

RECURSIVE Idents(_)
\* the names of the identifiers of a tree
Idents(node) ==
  IF isIdentExpr(node) THEN {node.name}
  ELSE IF isLinkExpr(node) \/ isNotLinkExpr(node) \/ isEqExpr(node) \/ isNeqExpr(node)
    THEN Idents(node.left) \cup Idents(node.right)
  ELSE IF isDefExpr(node) THEN Idents(node.name) \cup Idents(node.form)
  ELSE IF isMaleExpr(node) \/ isFemaleExpr(node) \/ isNotExpr(node)
    THEN Idents(node.operand)
  ELSE IF isPowerExpr(node) THEN Idents(node.base)
  ELSE IF isSetExpr(node)
    THEN UNION {Idents(node.elements[i]) : i \in 1..Len(node.elements)}
  ELSE {}

\* a name that matches /^[a-z]$/, said without isVariable
OneLowerLatin(name) == name \in {<<c>> : c \in LowerLatin}

\* the last call verified `nm = F` for a rigid identifier nm and a form F
\* whose identifiers are rigid and, nm apart, undefined, `nm : F` being a
\* definition that normalize accepts
LastEqualsForm ==
  /\ last.op = "verify"
  /\ isEqExpr(last.node)
  /\ isIdentExpr(last.node.left)
  /\ ~OneLowerLatin(last.node.left.name)
  /\ ~IsNormalizationError(normalize(Definition(last.node.left, last.node.right)))
  /\ \A n \in Idents(last.node.right) :
       /\ ~OneLowerLatin(n)
       /\ n # last.node.left.name => n \notin DOMAIN last.pre.definitions

\* a result as its holder sees it in state st: `steps` read through the
\* reference to state.trace when the result holds that array
Observed(r, st) ==
  IF r.steps = [ref |-> "state.trace"] THEN [r EXCEPT !.steps = [own |-> st.trace]]
  ELSE r

\* C3: statements verified in order on one ProverState see the definitions
\* of the earlier statements.  For a rigid undefined nm and a form F of rigid
\* undefined identifiers, verify(nm = F) fails while nm is undefined, and
\* succeeds with A0 then A1 once verify(nm : F) has registered F for nm; a
\* definition verified later leaves the results returned before as they were.
C3_LaterSeeEarlierDefinitions ==
  /\ (LastEqualsForm /\ last.node.left.name \notin DOMAIN last.pre.definitions)
       => /\ Returned
          /\ ~last.outcome.success
  /\ ( /\ LastEqualsForm
       /\ last.node.left.name \in DOMAIN last.pre.definitions
       /\ last.pre.definitions[last.node.left.name] = normalize(last.node.right) )
       => /\ Returned
          /\ last.outcome.success
          /\ last.outcome.appliedAxioms = <<"A0", "A1">>
  /\ (last.op = "verify" /\ isDefExpr(last.node) /\ Returned)
       => \A i \in 1..(Len(results) - 1) :
            Observed(results[i], state) = Observed(results[i], last.pre)

\* the last call verified a definition `n : F` with an identifier for its
\* name, which normalize accepts
LastDefines ==
  /\ last.op = "verify"
  /\ isDefExpr(last.node)
  /\ isIdentExpr(last.node.name)
  /\ ~IsNormalizationError(normalize(last.node))

\* C4: verify on a Definition whose name is an Identifier n and whose form F
\* passes normalization (the definition is not rejected by normalize) returns
\* success with appliedAxioms = [A0]; afterwards state.definitions[n] is
\* canonically equal to normalize(F), whatever was stored for n before, and
\* the entry of every other name is as it was.
C4_DefinitionRegistered ==
  LastDefines =>
    LET n == last.node.name.name
    IN /\ Returned
       /\ last.outcome.success
       /\ last.outcome.appliedAxioms = <<"A0">>
       /\ DOMAIN state.definitions = DOMAIN last.pre.definitions \cup {n}
       /\ toCanonicalString(state.definitions[n])
            = toCanonicalString(normalize(last.node.form))
       /\ \A m \in DOMAIN last.pre.definitions :
            m # n => state.definitions[m] = last.pre.definitions[m]

\* a definition replaced the form an earlier statement had given the name
C4_Witness ==
  /\ LastDefines /\ Returned /\ last.outcome.success
  /\ last.node.name.name \in DOMAIN last.pre.definitions
  /\ state.definitions[last.node.name.name]
       # last.pre.definitions[last.node.name.name]
  /\ \E m \in DOMAIN last.pre.definitions :
       m # last.node.name.name /\ m \notin DOMAIN createProverState.definitions

\* C5 as stated: verify, checkEquality and checkInequality on an equality or
\* inequality leave definitions, facts, axioms and trace unchanged.
C5_ChecksLeaveStateUnchanged ==
  LastChecks => state = last.pre

\* the entries of state.trace after the last call are those before it, in
\* place, followed by at most two new ones
TraceExtended ==
  /\ Len(state.trace) >= Len(last.pre.trace)
  /\ Len(state.trace) <= Len(last.pre.trace) + 2
  /\ SubSeq(state.trace, 1, Len(last.pre.trace)) = last.pre.trace

\* C5 (amended): verify, checkEquality and checkInequality on an equality or
\* inequality leave definitions, facts and axioms unchanged; of trace they
\* keep every entry and append at most two per call.
C5_ChecksOnlyAppendTrace ==
  LastChecks =>
    /\ state.definitions = last.pre.definitions
    /\ state.facts = last.pre.facts
    /\ state.axioms = last.pre.axioms
    /\ TraceExtended

\* a check that found entries in state.trace and added its own
C5_Witness ==
  /\ LastChecks
  /\ Len(last.pre.trace) > 0
  /\ Len(state.trace) = Len(last.pre.trace) + 2
  /\ DOMAIN state.definitions # DOMAIN createProverState.definitions

\* a definition whose name is no identifier, or a node that is no equality,
\* inequality or definition
Unverifiable(node) ==
  \/ isDefExpr(node) /\ ~isIdentExpr(node.name)
  \/ ~(isEqExpr(node) \/ isNeqExpr(node) \/ isDefExpr(node))

\* the last call returned a failure with a hint and no axiom and left
\* state.definitions alone
FailedWithHint ==
  /\ Returned
  /\ ~last.outcome.success
  /\ "hints" \in DOMAIN last.outcome
  /\ Len(last.outcome.hints) >= 1
  /\ last.outcome.appliedAxioms = <<>>
  /\ state.definitions = last.pre.definitions

\* C6 as stated: verify on a Definition whose name is not an Identifier, or
\* on a top-level node that is not an Equality, Inequality or Definition,
\* returns success = false with at least one hint and empty appliedAxioms and
\* leaves state.definitions unchanged.
C6_UnverifiableNodeFails ==
  (last.op = "verify" /\ Unverifiable(last.node)) => FailedWithHint

\* C6 (amended): the same of a node that normalize accepts and whose
\* normalized form is a Definition with a name that is not an Identifier, or
\* is not an Equality, Inequality or Definition.
C6_UnverifiableNormalizedFails ==
  ( /\ last.op = "verify"
    /\ ~IsNormalizationError(normalize(last.node))
    /\ Unverifiable(normalize(last.node)) ) => FailedWithHint

\* a definition named by a male term was refused after definitions of the user
C6_Witness ==
  /\ last.op = "verify"
  /\ isDefExpr(last.node)
  /\ ~IsNormalizationError(normalize(last.node))
  /\ isMaleExpr(normalize(last.node).name)
  /\ FailedWithHint
  /\ DOMAIN state.definitions # DOMAIN createProverState.definitions

\* the axioms of a result
Applied(outcome) == {outcome.appliedAxioms[i] : i \in 1..Len(outcome.appliedAxioms)}

\* the last call returned success with the axiom among the applied ones
SucceededBy(axiom) ==
  /\ Returned
  /\ last.outcome.success
  /\ axiom \in Applied(last.outcome)

\* C7: on the state of createProverState(), verify accepts
\* Male(t) = Link(Male(t), t) with A5 among the applied axioms and
\* Female(t) = Link(t, Female(t)) with A6 among them, the schema side on the
\* left or on the right, for every term t, nested male and female included.
C7_SelfClosureSchemas ==
  (last.op = "verify" /\ last.pre = createProverState /\ isEqExpr(last.node)) =>
    LET l == last.node.left
        r == last.node.right
    IN /\ (isMaleExpr(l) /\ r = Link(l, l.operand)) => SucceededBy("A5")
       /\ (isMaleExpr(r) /\ l = Link(r, r.operand)) => SucceededBy("A5")
       /\ (isFemaleExpr(l) /\ r = Link(l.operand, l)) => SucceededBy("A6")
       /\ (isFemaleExpr(r) /\ l = Link(r.operand, r)) => SucceededBy("A6")

\* the schema of A5 accepted for the nested operand male v, schema side right
C7_Witness ==
  /\ last.op = "verify"
  /\ last.node = Equality(Link(Male(Male(v)), Male(v)), Male(Male(v)))
  /\ SucceededBy("A5")

LastIsChain ==
  /\ last.op = "verify"
  /\ isEqExpr(last.node)
  /\ \E n \in 1..MaxChain :
       \/ last.node = Equality(Infinity, LeftChain(n))
       \/ last.node = Equality(LeftChain(n), Infinity)

\* C9: infinity collapse.  For every left-nested chain L of two or more inf
\* joined by ->, verify(inf = L) and verify(L = inf) return success with A4
\* among the applied axioms.
C9_InfinityCollapse ==
  LastIsChain => SucceededBy("A4")

\* the identifier named `name` occurs in the tree, whatever the nodes above it
Occurs(name, node) == name \in Idents(node)

\* the last call was unify(x, T, {}) for an identifier x whose name is one
\* lower-case latin letter
LastUnifiesVariable ==
  /\ last.op = "unify"
  /\ isIdentExpr(last.a)
  /\ OneLowerLatin(last.a.name)

\* the substitution {x |-> T}
Binding(name, term) == [entries |-> <<[key |-> name, value |-> term]>>]

\* what C10 says of a variable and a term without it, and of two rigid
\* identifiers
VariableBinds ==
  /\ (LastUnifiesVariable /\ ~Occurs(last.a.name, last.b))
       => last.result = Binding(last.a.name, last.b)
  /\ ( /\ last.op = "unify"
       /\ isIdentExpr(last.a) /\ isIdentExpr(last.b)
       /\ ~OneLowerLatin(last.a.name) /\ ~OneLowerLatin(last.b.name)
       /\ last.a.name # last.b.name ) => IsNull(last.result)

\* C10 as stated: an identifier is a variable of unify exactly when its name
\* matches /^[a-z]$/; for such x, unify(x, T, {}) is {x |-> T} when x does
\* not occur in T and null when T is not x and contains x; two distinct
\* identifiers that fail the pattern never unify.
C10_VariableRule ==
  /\ VariableBinds
  /\ (LastUnifiesVariable /\ last.b # last.a /\ Occurs(last.a.name, last.b))
       => IsNull(last.result)

\* C10 (amended): the same, the occurs check being claimed for a normalized
\* term T only (normalize(T) = T, so a term without Power and NotLink).
C10_VariableRuleNormalized ==
  /\ VariableBinds
  /\ ( /\ LastUnifiesVariable /\ last.b # last.a /\ Occurs(last.a.name, last.b)
       /\ normalize(last.b) = last.b ) => IsNull(last.result)

\* the occurs check refused unify(x, x -> aa)
C10_Witness ==
  /\ LastUnifiesVariable
  /\ last.a = x
  /\ last.b = Link(x, aa)
  /\ IsNull(last.result)

(***************************************************************************)
(* normalize called on one tree, the way the normalizer tests call it      *)
(***************************************************************************)
\* the largest exponent and the longest stack of negations of the trees
MaxExp == 3
MaxNot == 4

NormAtoms == {aa, x, Infinity}

\* the trees one constructor of terms makes of the trees of S
TermLayer(S) ==
  S \cup {Not(t) : t \in S} \cup {Male(t) : t \in S} \cup {Female(t) : t \in S}
    \cup {Power(t, n) : t \in S, n \in 0..MaxExp}
    \cup {Link(t, u) : t \in S, u \in S}
    \cup {NotLink(t, u) : t \in S, u \in S}

RECURSIVE NotStack(_, _)
\* k negations stacked on t
NotStack(t, k) == IF k = 0 THEN t ELSE Not(NotStack(t, k - 1))

NormTerms ==
  LET one == TermLayer(NormAtoms)
      two == TermLayer(one)
  IN two
       \cup {NotStack(t, k) : t \in one, k \in 1..MaxNot}
       \cup {Not(Male(t)) : t \in two} \cup {Not(Female(t)) : t \in two}
       \cup {SetExpr(<<t, u>>) : t \in one, u \in NormAtoms}

\* the definitions `aa : F`, and the statements built of two terms
NormStatements ==
  LET one == TermLayer(NormAtoms)
  IN {Definition(aa, t) : t \in TermLayer(one)}
       \cup {Definition(aa, SetExpr(<<t, u>>)) : t \in one, u \in NormAtoms}
       \cup {Equality(t, u) : t \in one, u \in NormAtoms}
       \cup {Inequality(t, u) : t \in one, u \in NormAtoms}
       \cup {Definition(Male(aa), t) : t \in one}
       \cup {Definition(aa, Equality(t, u)) : t \in one, u \in NormAtoms}

\* normalize(node)
Normalize(node) ==
  /\ last' = [op |-> "normalize", node |-> node, result |-> normalize(node)]
  /\ UNCHANGED <<state, results, error>>

InitNormalize == Init

\* one call on a tree of the inputs
NextNormalize ==
  /\ last = NoCall
  /\ \E node \in NormTerms \cup NormStatements : Normalize(node)

SpecNormalize == InitNormalize /\ [][NextNormalize]_vars

\* the last call of normalize returned
Normalized1 == last.op = "normalize" /\ ~IsNormalizationError(last.result)

\* C11: normalize is idempotent.  For every tree on which normalize does not
\* throw, normalize of the result does not throw and has the canonical
\* string of the result.
C11_NormalizeIdempotent ==
  Normalized1 =>
    /\ ~IsNormalizationError(normalize(last.result))
    /\ toCanonicalString(normalize(last.result)) = toCanonicalString(last.result)

\* normalize rewrote a definition with a negated link and a power, and the
\* result is left as it is by a second pass
C11_Witness ==
  /\ Normalized1
  /\ last.node = Definition(aa, NotLink(Power(aa, 2), Male(x)))
  /\ last.result = Definition(aa, Not(Link(Link(aa, aa), Male(x))))
  /\ normalize(last.result) = last.result

RECURSIVE StripPairs(_)
\* the tree under the pairs of negations stacked on it
StripPairs(node) ==
  IF isNotExpr(node) /\ isNotExpr(node.operand) THEN StripPairs(node.operand.operand)
  ELSE node

\* s is the canonical string of normalize(node), which does not throw
CanonicallyNormalOf(s, node) ==
  /\ ~IsNormalizationError(normalize(node))
  /\ s = toCanonicalString(normalize(node))

\* C12: negation canonicalization.  normalize(Not(Not(x))) is canonically
\* equal to normalize(x), so that of a stack of negations an even number
\* vanishes and an odd number leaves one; normalize(Not(Male(x))) is
\* canonically equal to normalize(Female(x)) and normalize(Not(Female(x)))
\* to normalize(Male(x)).
C12_NegationCanonical ==
  (Normalized1 /\ isNotExpr(last.node)) =>
    LET str == toCanonicalString(last.result)
        o == last.node.operand
    IN /\ isNotExpr(o) => /\ CanonicallyNormalOf(str, o.operand)
                          /\ CanonicallyNormalOf(str, StripPairs(last.node))
       /\ isMaleExpr(o) => CanonicallyNormalOf(str, Female(o.operand))
       /\ isFemaleExpr(o) => CanonicallyNormalOf(str, Male(o.operand))

\* three negations on a male term leave the female term
C12_Witness ==
  /\ Normalized1
  /\ last.node = NotStack(Male(x), 3)
  /\ last.result = Female(x)

RECURSIVE PowerChain(_, _)
\* the left-nested chain of n copies of b
PowerChain(b, n) ==
  IF n = 1 THEN b
  ELSE IF n = 2 THEN Link(b, b)
  ELSE Link(PowerChain(b, n - 1), b)

\* C14: power expansion.  For a base b that normalize accepts and n >= 1,
\* normalize(Power(b, n)) is the left-nested chain of n copies of
\* normalize(b); for n < 1 normalize throws NormalizationError.
C14_PowerExpansion ==
  (last.op = "normalize" /\ isPowerExpr(last.node)
     /\ ~IsNormalizationError(normalize(last.node.base))) =>
    IF last.node.exponent >= 1
    THEN last.result = PowerChain(normalize(last.node.base), last.node.exponent)
    ELSE /\ IsNormalizationError(last.result)
         /\ last.result.message = "Power exponent must be >= 1"

\* the third power of a base that normalize rewrites
C14_Witness ==
  /\ last.op = "normalize"
  /\ last.node = Power(NotLink(aa, x), 3)
  /\ last.result = Link(Link(Not(Link(aa, x)), Not(Link(aa, x))), Not(Link(aa, x)))

\* C13: the inversion of a link, !(a -> b) = (b -> a) of axiom A7, is done by
\* the normalizer: normalize(Not(Link(a, b))) is canonically equal to
\* normalize(Link(b, a)), so that verify(!(a -> b) = b -> a) returns success.
C13_LinkInversion ==
  ( /\ last.op = "verify" /\ last.pre = createProverState
    /\ isEqExpr(last.node)
    /\ isNotExpr(last.node.left) /\ isLinkExpr(last.node.left.operand)
    /\ last.node.right = Link(last.node.left.operand.right,
                              last.node.left.operand.left) )
    => /\ toCanonicalString(normalize(last.node.left))
            = toCanonicalString(normalize(last.node.right))
       /\ Returned
       /\ last.outcome.success

RECURSIVE OccursUnguarded(_, _, _)
\* the identifier `name` occurs in the form at a position that is inside no
\* branch of a Link or NotLink; `power` tells whether a power with an
\* exponent of two or more counts as the chain of links it stands for
OccursUnguarded(name, node, power) ==
  IF isIdentExpr(node) THEN node.name = name
  ELSE IF isLinkExpr(node) \/ isNotLinkExpr(node) THEN FALSE
  ELSE IF isMaleExpr(node) \/ isFemaleExpr(node) \/ isNotExpr(node)
    THEN OccursUnguarded(name, node.operand, power)
  ELSE IF isPowerExpr(node)
    THEN IF power /\ node.exponent >= 2 THEN FALSE
         ELSE OccursUnguarded(name, node.base, power)
  ELSE IF isSetExpr(node)
    THEN \E i \in 1..Len(node.elements) : OccursUnguarded(name, node.elements[i], power)
  ELSE IF isEqExpr(node) \/ isNeqExpr(node)
    THEN OccursUnguarded(name, node.left, power) \/ OccursUnguarded(name, node.right, power)
  ELSE IF isDefExpr(node)
    THEN OccursUnguarded(name, node.name, power) \/ OccursUnguarded(name, node.form, power)
  ELSE FALSE

\* the last call normalized `n : F` for an identifier n and a form F that
\* normalize accepts by itself
LastNormalizesDefinition ==
  /\ last.op = "normalize"
  /\ isDefExpr(last.node)
  /\ isIdentExpr(last.node.name)
  /\ ~IsNormalizationError(normalize(last.node.form))

\* the last call threw for an unguarded recursion
ThrewUnguarded ==
  /\ IsNormalizationError(last.result)
  /\ last.result.message = "Unguarded recursion"

\* C15 as stated: normalize(Definition(Identifier n, F)) throws exactly when
\* n occurs in F inside no branch of a Link or NotLink; Male, Female, Not,
\* Power and Set do not guard.
C15_GuardedRecursion ==
  LastNormalizesDefinition =>
    (ThrewUnguarded <=> OccursUnguarded(last.node.name.name, last.node.form, FALSE))

\* C15 (amended): the same with the position taken in the normalized form,
\* where a power with an exponent of two or more is a chain of links and so
\* guards, while a power with exponent 1 does not.
C15_GuardedRecursionNormalized ==
  LastNormalizesDefinition =>
    /\ ThrewUnguarded <=> OccursUnguarded(last.node.name.name, last.node.form, TRUE)
    /\ ~ThrewUnguarded => ~IsNormalizationError(last.result)

\* a definition refused for its name inside a male term inside a set
C15_Witness ==
  /\ LastNormalizesDefinition
  /\ last.node = Definition(aa, SetExpr(<<Male(aa), x>>))
  /\ ThrewUnguarded

\* what tells one hint of generateEqualityHints from another: the axiom it
\* relates to, or its message
HintKey(h) == IF "relatedAxiom" \in DOMAIN h THEN h.relatedAxiom ELSE h.message

\* the hints in the order generateEqualityHints is said to give them
HintOrder ==
  <<"different expression types", "A7", "A5", "A6", "A4",
    "check the structure of the links", "cannot be unified">>

\* the place of a hint in HintOrder
HintRank(key) == CHOOSE i \in 1..Len(HintOrder) : HintOrder[i] = key

\* the last call was an equality check that returned a failure
LastEqualityFailed ==
  /\ LastChecks /\ ~LastIsInequality
  /\ Returned
  /\ ~last.outcome.success

\* C19: when checkEquality fails, its hints come in a fixed order, each one
\* present exactly when its condition holds: the structural hint when the
\* input sides differ in their top node type; the duality hint (A7) when
\* after expansion one side is Male and the other Female; the A5 hint when
\* an expanded side is Male; the A6 hint when one is Female; the A4 hint when
\* one is Infinity; the hint on the structure of links when both are Link;
\* the generic hint exactly when no other applies, so hints is never empty.
C19_HintsInOrder ==
  LastEqualityFailed =>
    LET hints == last.outcome.hints
        keys == [i \in 1..Len(hints) |-> HintKey(hints[i])]
        has(key) == \E i \in 1..Len(keys) : keys[i] = key
        l == LastLeft
        r == LastRight
        el == expandDefinitions(normalize(l), last.pre)
        er == expandDefinitions(normalize(r), last.pre)
    IN /\ Len(hints) >= 1
       /\ \A i \in 1..Len(keys) : \E j \in 1..Len(HintOrder) : HintOrder[j] = keys[i]
       /\ \A i \in 1..Len(keys) : \A j \in 1..Len(keys) :
            i < j => HintRank(keys[i]) < HintRank(keys[j])
       /\ has("different expression types") <=> l.type # r.type
       /\ has("A7") <=> \/ isMaleExpr(el) /\ isFemaleExpr(er)
                        \/ isFemaleExpr(el) /\ isMaleExpr(er)
       /\ has("A5") <=> (isMaleExpr(el) \/ isMaleExpr(er))
       /\ has("A6") <=> (isFemaleExpr(el) \/ isFemaleExpr(er))
       /\ has("A4") <=> (isInfinityExpr(el) \/ isInfinityExpr(er))
       /\ has("check the structure of the links") <=> (isLinkExpr(el) /\ isLinkExpr(er))
       /\ has("cannot be unified") <=> Len(hints) = 1 /\ keys[1] = "cannot be unified"
       /\ has("cannot be unified") <=>
            ~ \/ l.type # r.type
              \/ isMaleExpr(el) \/ isMaleExpr(er)
              \/ isFemaleExpr(el) \/ isFemaleExpr(er)
              \/ isInfinityExpr(el) \/ isInfinityExpr(er)
              \/ isLinkExpr(el) /\ isLinkExpr(er)

\* aa = bb failed after `aa : !male bb`: the sides are identifiers, and the
\* one hint is that of A6, for the female term aa expands to
C19_Witness ==
  /\ LastEqualityFailed
  /\ LastLeft = aa /\ LastRight = bb
  /\ [i \in 1..Len(last.outcome.hints) |-> HintKey(last.outcome.hints[i])] = <<"A6">>

(***************************************************************************)
(* Lexer (lexer.ts)                                                        *)
(*                                                                         *)
(* Two more characters are named: "not" is U+00AC, "neq" is U+2260.  A     *)
(* position is the 0-based offset `pos` of the source.  A token carries    *)
(* its type, its value and `end`, the offset loc.end.offset where the next *)
(* token is looked for; the lines and columns of loc are left out.  What   *)
(* tokenize gives is the record of its tokens, [type |-> "Tokens", ...],   *)
(* or the LexerError thrown.                                               *)
(***************************************************************************)
Token(type, value, end) == [type |-> type, value |-> value, end |-> end]
LexerError(msg, offset) == [type |-> "LexerError", message |-> msg, offset |-> offset]

\* this.input[this.pos] || ''
Lexer_current(input, pos) == IF pos < Len(input) THEN input[pos + 1] ELSE ""
\* this.input[this.pos + n] || ''
Lexer_peek(input, pos, n) == IF pos + n < Len(input) THEN input[pos + n + 1] ELSE ""
isEOF(input, pos) == pos >= Len(input)
\* /[a-zA-Z_]/ on the characters the model writes
isIdStart(c) == c \in LowerLatin \cup {"A", "_"}
isDigit(c) == c \in {"0", "1", "2", "3", "4", "5", "6", "7", "8", "9"}
isIdContinue(c) == isIdStart(c) \/ isDigit(c)

RECURSIVE skipLineComment(_, _)
\* while (!isEOF() && current() !== '\n') advance()
skipLineComment(input, pos) ==
  IF ~isEOF(input, pos) /\ Lexer_current(input, pos) # "\n"
  THEN skipLineComment(input, pos + 1)
  ELSE pos

RECURSIVE skipWhitespaceAndComments(_, _)
\* /\s/ matches the space and the line break
skipWhitespaceAndComments(input, pos) ==
  IF isEOF(input, pos) THEN pos
  ELSE IF Lexer_current(input, pos) \in {" ", "\n"}
  THEN skipWhitespaceAndComments(input, pos + 1)
  ELSE IF Lexer_current(input, pos) = "/" /\ Lexer_peek(input, pos, 1) = "/"
  THEN skipWhitespaceAndComments(input, skipLineComment(input, pos))
  ELSE pos

RECURSIVE readIdentifier(_, _)
readIdentifier(input, pos) ==
  IF ~isEOF(input, pos) /\ isIdContinue(Lexer_current(input, pos))
  THEN <<Lexer_current(input, pos)>> \o readIdentifier(input, pos + 1)
  ELSE <<>>

RECURSIVE readNumber(_, _)
readNumber(input, pos) ==
  IF ~isEOF(input, pos) /\ isDigit(Lexer_current(input, pos))
  THEN <<Lexer_current(input, pos)>> \o readNumber(input, pos + 1)
  ELSE <<>>

\* the CHAR_LIT token of the literal that opens at pos, or the error thrown
readCharLit(input, pos) ==
  IF isEOF(input, pos + 1)
  THEN LexerError("Unterminated character literal", pos + 1)
  ELSE IF Lexer_current(input, pos + 2) # "'"
  THEN LexerError("Expected closing quote in character literal", pos + 2)
  ELSE Token("CHAR_LIT", <<Lexer_current(input, pos + 1)>>, pos + 3)

\* the token type of each case of the switch of nextToken, the quote aside
singleCharType(c) ==
  CASE c = ":" -> "DEFINE"     [] c = "=" -> "EQUAL"      [] c = "neq" -> "NOT_EQUAL"
    [] c = "male" -> "MALE"    [] c = "female" -> "FEMALE"
    [] c = "!" -> "NOT"        [] c = "not" -> "NOT"
    [] c = "^" -> "POWER"      [] c = "inf" -> "INFINITY"
    [] c = "(" -> "LPAREN"     [] c = ")" -> "RPAREN"
    [] c = "{" -> "LBRACE"     [] c = "}" -> "RBRACE"
    [] c = "[" -> "LBRACKET"   [] c = "]" -> "RBRACKET"
    [] c = "," -> "COMMA"      [] c = "." -> "DOT"
    [] OTHER -> "none"

\* nextToken once whitespace and comments are skipped
tokenAt(input, pos) ==
  LET c == Lexer_current(input, pos)
      num == readNumber(input, pos)
      id == readIdentifier(input, pos)
  IN IF isEOF(input, pos) THEN Token("EOF", <<>>, pos)
     ELSE IF c = "!" /\ Lexer_peek(input, pos, 1) = "-" /\ Lexer_peek(input, pos, 2) = ">"
     THEN Token("NOT_ARROW", <<"!", "-", ">">>, pos + 3)
     ELSE IF c = "!" /\ Lexer_peek(input, pos, 1) = "="
     THEN Token("NOT_EQUAL", <<"!", "=">>, pos + 2)
     ELSE IF c = "-" /\ Lexer_peek(input, pos, 1) = ">"
     THEN Token("ARROW", <<"-", ">">>, pos + 2)
     ELSE IF c = "not" /\ Lexer_peek(input, pos, 1) = "="
     THEN Token("NOT_EQUAL", <<"not", "=">>, pos + 2)
     ELSE IF singleCharType(c) # "none" THEN Token(singleCharType(c), <<c>>, pos + 1)
     ELSE IF c = "'" THEN readCharLit(input, pos)
     ELSE IF isDigit(c)
     THEN (IF num = <<"0">> THEN Token("ZERO", num, pos + 1)
           ELSE IF num = <<"1">> THEN Token("ONE", num, pos + 1)
           ELSE Token("NAT", num, pos + Len(num)))
     ELSE IF isIdStart(c) THEN Token("ID", id, pos + Len(id))
     ELSE LexerError("Unexpected character", pos)

nextToken(input, pos) == tokenAt(input, skipWhitespaceAndComments(input, pos))

RECURSIVE tokenizeFrom(_, _, _)
\* one turn of the loop of tokenize on the token nextToken gave
tokenizeFrom(input, tokens, token) ==
  IF token.type = "LexerError" THEN token
  ELSE IF token.type = "EOF" THEN [type |-> "Tokens", tokens |-> Append(tokens, token)]
  ELSE tokenizeFrom(input, Append(tokens, token), nextToken(input, token.end))

tokenize(input) == tokenizeFrom(input, <<>>, nextToken(input, 0))

(***************************************************************************)
(* Parser (parser.ts)                                                      *)
(*                                                                         *)
(* A method of the Parser reads this.tokens and this.pos and moves         *)
(* this.pos; here it takes the tokens and the position and gives back      *)
(* Parsed(node, pos), the node with the position it left, or the           *)
(* ParseError it threw.  The methods current, advance and parseExpr carry  *)
(* the prefix Parser_, the names being taken by the lexer and by the       *)
(* exported parseExpr; check and checkAny are written as a test of the     *)
(* type of the current token, parseTerm as the parseChain it calls.        *)
(***************************************************************************)
Parsed(node, pos) == [type |-> "Parsed", node |-> node, pos |-> pos]
ParseError(msg, token) == [type |-> "ParseError", message |-> msg, token |-> token.type]

Parser_current(tokens, pos) == tokens[pos + 1]
\* if (this.pos < this.tokens.length - 1) this.pos++
Parser_advance(tokens, pos) == IF pos < Len(tokens) - 1 THEN pos + 1 ELSE pos

RECURSIVE parseInt(_)
\* parseInt(value, 10) of a run of digits
parseInt(value) ==
  IF value = <<>> THEN 0
  ELSE 10 * parseInt(SubSeq(value, 1, Len(value) - 1)) + (CodeUnit(value[Len(value)]) - 48)

RECURSIVE Parser_parseExpr(_, _)
RECURSIVE parseChainLoop(_, _)
RECURSIVE parsePostLoop(_, _)
RECURSIVE parseAtom(_, _)
RECURSIVE parseSetLoop(_, _, _)
RECURSIVE collectPrefixes(_, _, _)
RECURSIVE applyPrefixes(_, _, _)

\* const rparen = this.expect('RPAREN'), inner what parseExpr gave
parseParen(tokens, inner) ==
  IF inner.type = "ParseError" THEN inner
  ELSE IF Parser_current(tokens, inner.pos).type # "RPAREN"
  THEN ParseError("Expected RPAREN", Parser_current(tokens, inner.pos))
  ELSE Parsed(inner.node, Parser_advance(tokens, inner.pos))

\* const rbrace = this.expect('RBRACE') and the Set node
parseSetEnd(tokens, elements, pos) ==
  IF Parser_current(tokens, pos).type # "RBRACE"
  THEN ParseError("Expected RBRACE", Parser_current(tokens, pos))
  ELSE Parsed(SetExpr(elements), Parser_advance(tokens, pos))

\* elements.push(parseExpr()) and the loop over the commas, el what
\* parseExpr gave
parseSetLoop(tokens, elements, el) ==
  IF el.type = "ParseError" THEN el
  ELSE IF Parser_current(tokens, el.pos).type = "COMMA"
  THEN parseSetLoop(tokens, Append(elements, el.node),
                    Parser_parseExpr(tokens, Parser_advance(tokens, el.pos)))
  ELSE parseSetEnd(tokens, Append(elements, el.node), el.pos)

parseSet(tokens, pos) ==
  IF Parser_current(tokens, pos).type # "LBRACE"
  THEN ParseError("Expected LBRACE", Parser_current(tokens, pos))
  ELSE IF Parser_current(tokens, Parser_advance(tokens, pos)).type = "RBRACE"
  THEN parseSetEnd(tokens, <<>>, Parser_advance(tokens, pos))
  ELSE parseSetLoop(tokens, <<>>, Parser_parseExpr(tokens, Parser_advance(tokens, pos)))

\* the node of an atom of one token
atomNode(token) ==
  CASE token.type = "INFINITY" -> Infinity
    [] token.type = "ZERO" -> Num(0)
    [] token.type = "ONE" -> Num(1)
    [] token.type = "LBRACKET" -> Bracket("left")
    [] token.type = "RBRACKET" -> Bracket("right")
    [] token.type = "ID" -> Identifier(token.value)
    [] token.type = "NAT" -> Identifier(token.value)
    [] token.type = "CHAR_LIT" -> CharLit(token.value[1])

parseAtom(tokens, pos) ==
  IF Parser_current(tokens, pos).type \in
       {"INFINITY", "ZERO", "ONE", "LBRACKET", "RBRACKET", "ID", "NAT", "CHAR_LIT"}
  THEN Parsed(atomNode(Parser_current(tokens, pos)), Parser_advance(tokens, pos))
  ELSE IF Parser_current(tokens, pos).type = "LBRACE" THEN parseSet(tokens, pos)
  ELSE IF Parser_current(tokens, pos).type = "LPAREN"
  THEN parseParen(tokens, Parser_parseExpr(tokens, Parser_advance(tokens, pos)))
  ELSE ParseError("Unexpected token", Parser_current(tokens, pos))

\* an exponent read from a NAT or a ONE token only
ExponentTokensFromOne == {"NAT", "ONE"}

\* Accept NAT, ONE, or ZERO as exponent
ExponentTokens == {"NAT", "ONE", "ZERO"}

\* the loop of parsePost, res the node so far
parsePostLoop(tokens, res) ==
  IF res.type = "ParseError" THEN res
  ELSE IF Parser_current(tokens, res.pos).type = "FEMALE"
  THEN parsePostLoop(tokens, Parsed(Female(res.node), Parser_advance(tokens, res.pos)))
  ELSE IF Parser_current(tokens, res.pos).type = "POWER"
  THEN LET expToken == Parser_current(tokens, Parser_advance(tokens, res.pos))
       IN IF expToken.type \in ExponentTokens
          THEN parsePostLoop(tokens,
                 Parsed(Power(res.node, parseInt(expToken.value)),
                        Parser_advance(tokens, Parser_advance(tokens, res.pos))))
          ELSE ParseError("Expected number after ^", expToken)
  ELSE res

parsePost(tokens, pos) == parsePostLoop(tokens, parseAtom(tokens, pos))

\* Collect all prefix operators
collectPrefixes(tokens, pos, prefixes) ==
  IF Parser_current(tokens, pos).type \in {"NOT", "MALE"}
  THEN collectPrefixes(tokens, Parser_advance(tokens, pos),
                       Append(prefixes, Parser_current(tokens, pos).type))
  ELSE [prefixes |-> prefixes, pos |-> pos]

\* Apply prefixes in reverse order: for (i = prefixes.length - 1; i >= 0; i--),
\* on the node parsePost gave
applyPrefixes(prefixes, i, post) ==
  IF post.type = "ParseError" \/ i = 0 THEN post
  ELSE applyPrefixes(prefixes, i - 1,
         Parsed(IF prefixes[i] = "NOT" THEN Not(post.node) ELSE Male(post.node),
                post.pos))

parsePref(tokens, pos) ==
  LET collected == collectPrefixes(tokens, pos, <<>>)
  IN applyPrefixes(collected.prefixes, Len(collected.prefixes),
                   parsePost(tokens, collected.pos))

\* the link with the sides the other way round
chainLinkExchanged(isNotArrow, left, right) ==
  IF right.type = "ParseError" THEN right
  ELSE Parsed(IF isNotArrow THEN NotLink(right.node, left)
              ELSE Link(right.node, left), right.pos)

\* left = { type: isNotArrow ? 'NotLink' : 'Link', left, right }
chainLink(isNotArrow, left, right) ==
  IF right.type = "ParseError" THEN right
  ELSE Parsed(IF isNotArrow THEN NotLink(left, right.node)
              ELSE Link(left, right.node), right.pos)

\* the loop of parseChain, left the node so far
parseChainLoop(tokens, left) ==
  IF left.type = "ParseError" THEN left
  ELSE IF Parser_current(tokens, left.pos).type \in {"ARROW", "NOT_ARROW"}
  THEN parseChainLoop(tokens,
         chainLink(Parser_current(tokens, left.pos).type = "NOT_ARROW", left.node,
                   parsePref(tokens, Parser_advance(tokens, left.pos))))
  ELSE left

parseChain(tokens, pos) == parseChainLoop(tokens, parsePref(tokens, pos))

\* the node of the operator token `type` between left and what parseTerm gave
exprNode(type, left, right) ==
  IF right.type = "ParseError" THEN right
  ELSE IF type = "DEFINE" THEN Parsed(Definition(left, right.node), right.pos)
  ELSE IF type = "EQUAL" THEN Parsed(Equality(left, right.node), right.pos)
  ELSE Parsed(Inequality(left, right.node), right.pos)

\* parseExpr after its first term
parseExprRest(tokens, left) ==
  IF left.type = "ParseError" THEN left
  ELSE IF Parser_current(tokens, left.pos).type \in {"DEFINE", "EQUAL", "NOT_EQUAL"}
  THEN exprNode(Parser_current(tokens, left.pos).type, left.node,
                parseChain(tokens, Parser_advance(tokens, left.pos)))
  ELSE left

Parser_parseExpr(tokens, pos) == parseExprRest(tokens, parseChain(tokens, pos))

\* a statement that ends where its expression ends, the dot not asked for
statementEndLenient(tokens, expr) ==
  IF expr.type = "ParseError" THEN expr
  ELSE IF Parser_current(tokens, expr.pos).type # "DOT"
  THEN Parsed([type |-> "Statement", expr |-> expr.node], expr.pos)
  ELSE Parsed([type |-> "Statement", expr |-> expr.node], Parser_advance(tokens, expr.pos))

\* const dot = this.expect('DOT') and the Statement node
statementEnd(tokens, expr) ==
  IF expr.type = "ParseError" THEN expr
  ELSE IF Parser_current(tokens, expr.pos).type # "DOT"
  THEN ParseError("Expected DOT", Parser_current(tokens, expr.pos))
  ELSE Parsed([type |-> "Statement", expr |-> expr.node], Parser_advance(tokens, expr.pos))

parseStatement(tokens, pos) == statementEnd(tokens, Parser_parseExpr(tokens, pos))

RECURSIVE parseFileLoop(_, _, _)
\* while (!this.check('EOF')) statements.push(this.parseStatement())
parseFileLoop(tokens, pos, statements) ==
  LET stmt == parseStatement(tokens, pos)
  IN IF Parser_current(tokens, pos).type = "EOF"
     THEN [type |-> "File", statements |-> statements]
     ELSE IF stmt.type = "ParseError" THEN stmt
     ELSE parseFileLoop(tokens, stmt.pos, Append(statements, stmt.node))

parseFile(tokens) == parseFileLoop(tokens, 0, <<>>)

\* parse(input): a File, or the LexerError or ParseError thrown
parse(input) ==
  LET lexed == tokenize(input)
  IN IF lexed.type = "LexerError" THEN lexed ELSE parseFile(lexed.tokens)

\* file.statements[0].expr unless the statements are not one
singleExpr(file, first) ==
  IF file.type = "ParseError" THEN file
  ELSE IF Len(file.statements) # 1 THEN ParseError("Expected single expression", first)
  ELSE file.statements[1].expr

\* parseExpr(input): parse of input + '.', the expression of its statement
parseExpr(input) ==
  LET lexed == tokenize(input \o <<".">>)
  IN IF lexed.type = "LexerError" THEN lexed
     ELSE singleExpr(parseFile(lexed.tokens), lexed.tokens[1])

(***************************************************************************)
(* The lexer and the parser on bounded texts                               *)
(***************************************************************************)
\* characters of a text given to tokenize
MaxChars == 4
\* lexemes of a text given to parse
MaxLexemes == 4
\* terms of a chain of links
MaxTerms == 3
\* statements of a file
MaxFileStmts == 3

Arrow == <<"-", ">">>

RECURSIVE Concat(_)
\* the texts of a sequence one after the other
Concat(texts) == IF texts = <<>> THEN <<>> ELSE Head(texts) \o Concat(Tail(texts))

\* the characters the texts given to tokenize are written with
LexChars == {"!", "not", "-", ">", "=", "a", "'", " ", "."}

LexTexts == UNION {[1..n -> LexChars] : n \in 0..MaxChars}

\* the lexemes the texts given to parse are written with
Lexemes ==
  {<<"a">>, <<"!">>, <<"not">>, Arrow, <<"=">>, <<".">>, <<"^">>, <<"0">>,
   <<"2">>, <<"(">>, <<")">>}

LexemeTexts == {Concat(ls) : ls \in UNION {[1..n -> Lexemes] : n \in 0..MaxLexemes}}

\* the terms of the chains: atoms, prefixed, postfixed and a power
ChainTerms ==
  {<<"a">>, <<"b">>, <<"c">>, <<"!", "a">>, <<"male", "b">>, <<"c", "female">>,
   <<"a", "^", "2">>}

ChainTermSeqs == UNION {[1..n -> ChainTerms] : n \in 2..MaxTerms}

\* t1->t2->...->tn
ChainText(ts) == JoinStrings(ts, Arrow)

RECURSIVE LeftNestText(_)
\* ((t1->t2)->...)->tn, every link but the outermost in parentheses
LeftNestText(ts) ==
  IF Len(ts) = 1 THEN ts[1]
  ELSE IF Len(ts) = 2 THEN ts[1] \o Arrow \o ts[2]
  ELSE <<"(">> \o LeftNestText(SubSeq(ts, 1, Len(ts) - 1)) \o <<")">>
       \o Arrow \o ts[Len(ts)]

RECURSIVE RightNestText(_)
\* t1->(t2->(...->tn)), every link but the outermost in parentheses
RightNestText(ts) ==
  IF Len(ts) = 1 THEN ts[1]
  ELSE IF Len(ts) = 2 THEN ts[1] \o Arrow \o ts[2]
  ELSE ts[1] \o Arrow \o <<"(">> \o RightNestText(Tail(ts)) \o <<")">>

ExprTexts ==
  UNION {{ChainText(ts), LeftNestText(ts), RightNestText(ts)} : ts \in ChainTermSeqs}

\* the statements of the files, written without their dot
StmtTexts ==
  {<<"a">>, <<"a", " ", "=", " ", "b">>, <<"a", ":", "b", "-", ">", "c">>,
   <<"{", "a", ",", "b", "}">>}

\* a file: its statements, each with its dot or without
FileSeqs == UNION {[1..n -> StmtTexts \X BOOLEAN] : n \in 0..MaxFileStmts}

\* the statements of a file one after the other, a space between two
FileText(ps) ==
  JoinStrings([i \in 1..Len(ps) |-> ps[i][1] \o (IF ps[i][2] THEN <<".">> ELSE <<>>)],
              <<" ">>)

FileTexts == {FileText(ps) : ps \in FileSeqs}

\* files with a comment, a character literal and a line break
CommentTexts ==
  {<<"a", ".", " ", "/", "/", " ", "b", ".", "\n", "c", ".">>,
   <<"a", ".", " ", "/", "/", " ", "b", ".">>,
   <<"'", ".", "'", ".">>,
   <<"a", "\n", "b", ".">>,
   <<"/", "/", "a", ".">>}

\* the digits of the exponents
ExponentTexts ==
  {<<"0">>, <<"1">>, <<"2">>, <<"0", "0">>, <<"0", "1">>, <<"1", "0">>}

PowerBases == {<<"a">>, <<"inf">>, <<"(", "a", "-", ">", "b", ")">>}

\* the statements a power base^exponent is written in
PowerContexts(b, e) ==
  LET pw == b \o <<"^">> \o e
  IN {pw \o <<".">>,
      <<"b", ":">> \o pw \o <<".">>,
      <<"{">> \o pw \o <<",", "b", "}", ".">>,
      pw \o Arrow \o <<"b", ".">>,
      <<"!">> \o pw \o <<".">>,
      pw \o <<"^", "2", ".">>,
      b \o <<"^", "2", "^">> \o e \o <<".">>,
      pw \o <<"female", ".">>,
      <<"a", ".", " ">> \o pw \o <<".">>,
      <<"a", "=">> \o pw \o <<".">>}

PowerTexts == UNION {PowerContexts(b, e) : b \in PowerBases, e \in ExponentTexts}

ParseTexts == LexemeTexts \cup FileTexts \cup CommentTexts \cup PowerTexts

\* tokenize(text)
Tokenize(text) ==
  /\ last' = [op |-> "tokenize", text |-> text, result |-> tokenize(text)]
  /\ UNCHANGED <<state, results, error>>

\* parse(text)
Parse(text) ==
  /\ last' = [op |-> "parse", text |-> text, result |-> parse(text)]
  /\ UNCHANGED <<state, results, error>>

\* parseExpr(text)
ParseExpr(text) ==
  /\ last' = [op |-> "parseExpr", text |-> text, result |-> parseExpr(text)]
  /\ UNCHANGED <<state, results, error>>

InitParse == Init

NextParse ==
  /\ last = NoCall
  /\ \/ \E text \in LexTexts : Tokenize(text)
     \/ \E text \in ParseTexts : Parse(text)
     \/ \E text \in ExprTexts : ParseExpr(text)

SpecParse == InitParse /\ [][NextParse]_vars

(***************************************************************************)
(* Properties of the lexer and the parser                                  *)
(***************************************************************************)
RECURSIVE LeftNested(_)
\* the tree ((n1 -> n2) -> ...) -> nk of the nodes n1..nk
LeftNested(nodes) ==
  IF Len(nodes) = 1 THEN nodes[1]
  ELSE Link(LeftNested(SubSeq(nodes, 1, Len(nodes) - 1)), nodes[Len(nodes)])

\* canonical(text) of the tests: the canonical string of the normalized
\* expression
Canonical(text) == toCanonicalString(normalize(parseExpr(text)))

\* C16: a chain t1 -> t2 -> ... -> tn written without parentheses parses to
\* the left-nested tree ((t1 -> t2) -> ...) -> tn; its canonical string is
\* that of the chain with the left nesting written out in parentheses, and
\* with three terms or more differs from that of the right-nested chain.
C16_ChainsLeftAssociative ==
  last.op = "parseExpr" =>
    \A ts \in ChainTermSeqs :
      last.text = ChainText(ts) =>
        /\ last.result = LeftNested([i \in 1..Len(ts) |-> parseExpr(ts[i])])
        /\ toCanonicalString(normalize(last.result)) = Canonical(LeftNestText(ts))
        /\ Len(ts) >= 3 =>
             toCanonicalString(normalize(last.result)) # Canonical(RightNestText(ts))

\* parseExpr("a->b->c") gave (a -> b) -> c
C16_Witness ==
  /\ last.op = "parseExpr"
  /\ last.text = <<"a", "-", ">", "b", "-", ">", "c">>
  /\ last.result = Link(Link(Identifier(<<"a">>), Identifier(<<"b">>)), Identifier(<<"c">>))

\* the number of DOT tokens among the tokens
DotCount(tokens) == Cardinality({i \in 1..Len(tokens) : tokens[i].type = "DOT"})

\* the files where a statement, the last one or another, has no dot
MissingDotTexts == {FileText(ps) : ps \in {qs \in FileSeqs : \E i \in 1..Len(qs) : ~qs[i][2]}}

RECURSIVE PowerExponents(_)
\* the exponents of the Power nodes of a tree
PowerExponents(node) ==
  IF node.type = "File"
  THEN UNION {PowerExponents(node.statements[i]) : i \in 1..Len(node.statements)}
  ELSE IF node.type = "Statement" THEN PowerExponents(node.expr)
  ELSE IF node.type \in {"Link", "NotLink", "Equality", "Inequality"}
  THEN PowerExponents(node.left) \cup PowerExponents(node.right)
  ELSE IF isDefExpr(node) THEN PowerExponents(node.name) \cup PowerExponents(node.form)
  ELSE IF node.type \in {"Male", "Female", "Not"} THEN PowerExponents(node.operand)
  ELSE IF isPowerExpr(node) THEN {node.exponent} \cup PowerExponents(node.base)
  ELSE IF isSetExpr(node)
  THEN UNION {PowerExponents(node.elements[i]) : i \in 1..Len(node.elements)}
  ELSE {}

\* parse returned a File
ParseReturned == last.op = "parse" /\ last.result.type = "File"

\* C18 (as stated): every Power node of an AST that parse returned has an
\* exponent of 1 or more.
C18_PowerExponentPositive ==
  ParseReturned => \A n \in PowerExponents(last.result) : n >= 1

\* the statements where the power base^exponent stands, the exponent zero
ZeroPowerTexts == UNION {PowerContexts(b, e) : b \in PowerBases, e \in {<<"0">>, <<"0", "0">>}}

\* C18 (amended): the parser takes any run of digits for an exponent, zero
\* included: a statement with `^0` parses, to a Power node of exponent 0; the
\* exponents of an AST that parse returned are 0 or more, and it is normalize
\* that refuses, with NormalizationError, a statement of the file where an
\* exponent is less than 1.
C18_PowerExponentNatural ==
  /\ ParseReturned =>
       /\ \A n \in PowerExponents(last.result) : n >= 0
       /\ \A i \in 1..Len(last.result.statements) :
            (\E n \in PowerExponents(last.result.statements[i]) : n < 1)
              => IsNormalizationError(normalize(last.result.statements[i].expr))
  /\ last.op = "parse" /\ last.text \in ZeroPowerTexts =>
       /\ last.result.type = "File"
       /\ 0 \in PowerExponents(last.result)

\* parse("a^0.") returned the Power node of exponent 0
C18_Witness ==
  /\ last.op = "parse"
  /\ last.text = <<"a", "^", "0", ".">>
  /\ last.result.type = "File"
  /\ last.result.statements =
       <<[type |-> "Statement", expr |-> Power(Identifier(<<"a">>), 0)]>>

\* the text with "not" written at place i
WithNotAt(text, i) == [text EXCEPT ![i] = "not"]

\* the types of the tokens, or the error
TokenTypes(lexed) ==
  IF lexed.type = "LexerError" THEN <<lexed.type, lexed.message>>
  ELSE [i \in 1..Len(lexed.tokens) |-> lexed.tokens[i].type]

\* C20: "not" is another spelling of `!`: a text where an occurrence of `!` is
\* written "not" gives tokens of the same types, or the same error.
C20_NotIsSynonymOfBang ==
  last.op = "tokenize" =>
    \A i \in 1..Len(last.text) :
      last.text[i] = "!" =>
        TokenTypes(tokenize(WithNotAt(last.text, i))) = TokenTypes(last.result)

(***************************************************************************)
(* The canonical string as a signature                                     *)
(***************************************************************************)
\* C21: the canonical string is a unique signature: on two normalized terms
\* without Set nodes astEqual holds only of one and the same tree, so that
\* Male(Female(x)) and Female(Male(x)) are told apart.
C21_CanonicalStringIsSignature ==
  (last.op = "astEqual" /\ last.result) => last.a = last.b

(***************************************************************************)
(* Soundness of unify                                                      *)
(***************************************************************************)
\* the variables bound in a substitution
SubstKeys(subst) == {subst.entries[i].key : i \in 1..Len(subst.entries)}

RECURSIVE BoundWithin(_, _, _)
\* the bound variables met when the bindings of the variables of `names` are
\* followed for up to n steps
BoundWithin(subst, names, n) ==
  IF n = 0 THEN {}
  ELSE LET next == UNION {Idents(SubstGet(subst, k)) : k \in names} \cap SubstKeys(subst)
       IN next \cup BoundWithin(subst, next, n - 1)

\* no variable bound in the substitution occurs in its own resolved binding
Acyclic(subst) ==
  \A k \in SubstKeys(subst) : k \notin BoundWithin(subst, {k}, SubstSize(subst))

\* unify returned a substitution for two normalized terms
LastUnified ==
  /\ last.op = "unify"
  /\ normalize(last.a) = last.a
  /\ normalize(last.b) = last.b
  /\ ~IsNull(last.result)

\* C24: unify is sound: a substitution s returned by unify(a, b, {}) for
\* normalized a and b is acyclic, so that applySubstitution ends on it, and
\* applySubstitution(a, s) and applySubstitution(b, s) have the same
\* canonical string.
C24_UnifySound ==
  LastUnified =>
    /\ Acyclic(last.result)
    /\ toCanonicalString(applySubstitution(last.a, last.result))
         = toCanonicalString(applySubstitution(last.b, last.result))

\* unify(x -> aa, y -> x) bound x to y and then y to aa
C24_Witness ==
  /\ LastUnified
  /\ last.a = Link(x, aa)
  /\ last.b = Link(y, x)
  /\ SubstKeys(last.result) = {x.name, y.name}
  /\ applySubstitution(last.a, last.result) = Link(aa, aa)

(***************************************************************************)
(* unify on sets                                                           *)
(***************************************************************************)
RECURSIVE Positional(_, _, _, _)
\* the elements of two sequences of equal length unified index by index
\* from i on, each pair under the substitution of the pairs before it, null
\* from the first pair that fails
Positional(as, bs, i, s) ==
  IF i > Len(as) THEN s
  ELSE IF IsNull(unify(as[i], bs[i], s)) THEN Null
  ELSE Positional(as, bs, i + 1, unify(as[i], bs[i], s))

\* unify was called on two sets whose canonical strings differ
LastUnifiesSets ==
  /\ last.op = "unify"
  /\ isSetExpr(last.a)
  /\ isSetExpr(last.b)
  /\ toCanonicalString(last.a) # toCanonicalString(last.b)

\* C27: on two Set nodes whose canonical strings differ unify works by
\* position: null when the arities differ, otherwise the elements at equal
\* indices unified left to right with the substitution threaded and null at
\* the first failing pair, no permutation being tried: {x, aa} against
\* {aa, bb} is null.
C27_SetsUnifyByPosition ==
  /\ LastUnifiesSets =>
       last.result = IF Len(last.a.elements) # Len(last.b.elements) THEN Null
                     ELSE Positional(last.a.elements, last.b.elements, 1, EmptySubst)
  /\ ( /\ last.op = "unify"
       /\ last.a = SetExpr(<<x, aa>>)
       /\ last.b = SetExpr(<<aa, bb>>) ) => IsNull(last.result)

\* {x, aa} against {aa, bb} was refused, though {x, aa} against {bb, aa}
\* unifies
C27_Witness ==
  /\ LastUnifiesSets
  /\ last.a = SetExpr(<<x, aa>>)
  /\ last.b = SetExpr(<<aa, bb>>)
  /\ IsNull(last.result)
  /\ ~IsNull(unify(last.a, SetExpr(<<bb, aa>>), EmptySubst))

(***************************************************************************)
(* The built-ins of createProverState                                      *)
(***************************************************************************)
\* the built-ins as the user writes them
BuiltinTexts ==
  {<<"1", " ", "=", " ", "male", "inf", " ", "-", ">", " ", "inf", "female">>,
   <<"0", " ", "=", " ", "!", "1">>,
   <<"[", " ", "=", " ", "male", "inf">>,
   <<"]", " ", "=", " ", "inf", "female">>,
   <<"!", "inf", " ", "=", " ", "inf">>}

\* C23: every built-in seeded by createProverState() is accepted in that
\* initial state: verify returns success for `1 = male inf -> inf female`,
\* `0 = !1`, `[ = male inf`, `] = inf female` and `!inf = inf`.
C23_BuiltinsAccepted ==
  ( /\ last.op = "verify"
    /\ last.pre = createProverState
    /\ last.node \in {parseExpr(t) : t \in BuiltinTexts} )
    => (Returned /\ last.outcome.success)

\* the five statements verified are the five texts parsed
C23_Parsed == BuiltinStatements = {parseExpr(t) : t \in BuiltinTexts}

(***************************************************************************)
(* The schema step of checkEquality                                        *)
(***************************************************************************)
\* the two sides of the last equality check after normalization and
\* expansion of the definitions of the state the call began on
LastExpLeft == expandDefinitions(normalize(LastLeft), last.pre)
LastExpRight == expandDefinitions(normalize(LastRight), last.pre)

\* the last equality check came to the schema step: normalization,
\* expansion and unification had not proved the equality
SchemaStepReached ==
  /\ LastChecks /\ ~LastIsInequality
  /\ Returned
  /\ toCanonicalString(normalize(LastLeft)) # toCanonicalString(normalize(LastRight))
  /\ toCanonicalString(LastExpLeft) # toCanonicalString(LastExpRight)
  /\ IsNull(unify(LastExpLeft, LastExpRight, EmptySubst))

\* one side is male t, t female or inf and the other side is, canonically,
\* the link the schema of A5, A6 or A4 gives for that very side
DirectInstance(one, other) ==
  \/ isMaleExpr(one)
       /\ toCanonicalString(Link(one, one.operand)) = toCanonicalString(other)
  \/ isFemaleExpr(one)
       /\ toCanonicalString(Link(one.operand, one)) = toCanonicalString(other)
  \/ isInfinityExpr(one)
       /\ toCanonicalString(Link(Infinity, Infinity)) = toCanonicalString(other)

LastVerifiesDefinition ==
  /\ last.op = "verify"
  /\ isDefExpr(last.node)
  /\ isIdentExpr(last.node.name)

\* the call threw NormalizationError and the ProverState is the state it
\* began on, the results returned so far being the same as well
ThrewLeavingState ==
  /\ IsThrown(last.outcome)
  /\ last.outcome.type = "NormalizationError"
  /\ error = "NormalizationError"
  /\ state = last.pre

\* C22: verify on Definition(Identifier n, F) in which n occurs unguarded
\* (inside no branch of a Link or NotLink) throws NormalizationError before
\* touching the state: state.definitions, an earlier entry for n included,
\* and the rest of the ProverState are as before the call.
C22_UnguardedLeavesState ==
  (LastVerifiesDefinition /\ OccursUnguarded(last.node.name.name, last.node.form, FALSE))
    => ThrewLeavingState

\* C22 (amended): the same for n unguarded in the normalized form, where a
\* power with an exponent of two or more has become a chain of links
C22_UnguardedNormalizedLeavesState ==
  (LastVerifiesDefinition /\ OccursUnguarded(last.node.name.name, last.node.form, TRUE))
    => ThrewLeavingState

\* `aa : aa` was refused on a state that already held a definition of aa,
\* which is still there
C22_Witness ==
  /\ LastVerifiesDefinition
  /\ last.node = Definition(aa, aa)
  /\ DefHas(last.pre.definitions, aa.name)
  /\ ThrewLeavingState
  /\ DefHas(state.definitions, aa.name)
  /\ state.definitions[aa.name] = last.pre.definitions[aa.name]

(***************************************************************************)
(* The results a session has returned                                      *)
(***************************************************************************)
\* the `steps` a caller reads in a result while the ProverState is st: the
\* array of the result itself, or state.trace when the result holds that
StepsOf(result, st) ==
  IF "ref" \in DOMAIN result.steps THEN st.trace ELSE result.steps.own

\* a step of the session that is a call of verify on an equality, returning
\* success = false
FailedEqualityStep ==
  /\ Len(results') = Len(results) + 1
  /\ last'.op = "verify"
  /\ isEqExpr(last'.node)
  /\ ~last'.outcome.success

\* C25: a ProofResult returned by verify is fixed once returned: further
\* statements verified against the same ProverState change no field of an
\* earlier result, and the `steps` of a failed equality contain the entries
\* produced by that equality check only, none from other statements.
C25_ResultsAreFixed ==
  [][ /\ Len(results') >= Len(results) =>
           \A i \in 1..Len(results) :
              /\ results'[i] = results[i]
              /\ StepsOf(results'[i], state') = StepsOf(results[i], state)
      /\ FailedEqualityStep =>
           StepsOf(last'.outcome, state')
             = SubSeq(state'.trace, Len(state.trace) + 1, Len(state'.trace)) ]_vars

(***************************************************************************)
(* What the proof search reads of the ProverState                          *)
(***************************************************************************)
\* of what verify returned or threw, the parts that tell the proof: the
\* success flag, the applied axioms, the proof steps and the hints
ProofOf(outcome) ==
  IF IsThrown(outcome) THEN outcome
  ELSE [success |-> outcome.success,
        appliedAxioms |-> outcome.appliedAxioms,
        proofSteps |-> outcome.proofSteps,
        hints |-> IF "hints" \in DOMAIN outcome THEN outcome.hints ELSE <<>>]

\* the states with the definitions of st, whatever their facts, axioms and trace
SameDefinitions(st) == {other \in ProverStates : other.definitions = st.definitions}

\* C26: proof search never consults facts or axioms: for a statement and two
\* ProverStates with equal definitions but different facts, axioms or trace,
\* verify returns the same success flag, the same applied axioms, the same
\* proof steps and the same hints.
C26_FactsNeverConsulted ==
  last.op = "verify" =>
    \A other \in SameDefinitions(last.pre) :
       ProofOf(verify(last.node, other).outcome) = ProofOf(last.outcome)

\* `aa = bb` was refused on a state whose facts hold (aa=bb), whose axioms
\* list A7 and whose trace is not empty
C26_Witness ==
  /\ last.op = "verify"
  /\ last.node = Equality(aa, bb)
  /\ toCanonicalString(Equality(aa, bb)) \in last.pre.facts
  /\ last.pre.axioms # <<>>
  /\ last.pre.trace # <<>>
  /\ ~DefHas(last.pre.definitions, aa.name)
  /\ Returned
  /\ ~last.outcome.success

(***************************************************************************)
(* The two orders of the sides of an equality                              *)
(***************************************************************************)
\* what checkEquality returns or throws on the sides of the last call
\* exchanged, from the state that call began on
Exchanged == checkEquality(last.right, last.left, last.pre).outcome

\* C29: equality checking is symmetric in its outcome: for terms l and r and
\* a state on which both calls return, checkEquality(l, r, state).success
\* equals checkEquality(r, l, state).success.
C29_EqualitySymmetric ==
  (last.op = "checkEquality" /\ Returned /\ ~IsThrown(Exchanged))
    => Exchanged.success = last.outcome.success

\* male bb -> bb = male bb succeeded on a state that defines bb, by the
\* reverse branch of A5 after the expansion of bb
C29_Witness ==
  /\ last.op = "checkEquality"
  /\ last.left = Link(Male(bb), bb)
  /\ last.right = Male(bb)
  /\ DefHas(last.pre.definitions, bb.name)
  /\ SucceededBy("A5")
  /\ Exchanged.success

(***************************************************************************)
(* The normal form                                                         *)
(***************************************************************************)
RECURSIVE InNormalForm(_)
\* the tree has no NotLink, no Power and no negation of a negation, of a
\* male or of a female term, at any depth
InNormalForm(node) ==
  IF isNotLinkExpr(node) \/ isPowerExpr(node) THEN FALSE
  ELSE IF isNotExpr(node)
    THEN /\ ~isNotExpr(node.operand)
         /\ ~isMaleExpr(node.operand)
         /\ ~isFemaleExpr(node.operand)
         /\ InNormalForm(node.operand)
  ELSE IF isMaleExpr(node) \/ isFemaleExpr(node) THEN InNormalForm(node.operand)
  ELSE IF isLinkExpr(node) \/ isEqExpr(node) \/ isNeqExpr(node)
    THEN InNormalForm(node.left) /\ InNormalForm(node.right)
  ELSE IF isDefExpr(node) THEN InNormalForm(node.name) /\ InNormalForm(node.form)
  ELSE IF isSetExpr(node)
    THEN \A i \in 1..Len(node.elements) : InNormalForm(node.elements[i])
  ELSE TRUE

\* C30: normal form.  For every term or relation on which normalize with the
\* default options returns, the result contains no NotLink node, no Power
\* node and no Not node whose operand is a Not, Male or Female node, at any
\* depth, the elements of a Set and both sides of a Definition, Equality or
\* Inequality included.
C30_NormalForm ==
  Normalized1 => InNormalForm(last.result)

\* the normal form of the negation of a male NotLink: a female negated link
C30_Witness ==
  /\ Normalized1
  /\ last.node = Not(Male(NotLink(aa, x)))
  /\ last.result = Female(Not(Link(aa, x)))
  /\ InNormalForm(last.result)
  /\ ~InNormalForm(last.node)
====
